---- MODULE Spec2Model ----
(***************************************************************************)
(* Verification model of the Notion synchronisation module                 *)
(* (backend/app/modules/notion).                                           *)
(*                                                                         *)
(*   Spec        NotionSyncManager (sync_manager.py): caller threads that  *)
(*               call start_sync / get_status, the job lock, the shared    *)
(*               _state dict and the background worker threads that run    *)
(*               _run_sync -> run_full_sync (sync.py).                     *)
(*   SpecClient  NotionClient._request (notion_client.py): the retry loop  *)
(*               of one call, one action per loop iteration.               *)
(*   SpecPaginate  NotionClient.query_data_source / query_database         *)
(*               (notion_client.py): the generator's loop over the pages   *)
(*               of one remote source.                                     *)
(*   SpecSync    run_full_sync (sync.py) over NotionRepository             *)
(*               (repository.py): successive runs on one local store, one  *)
(*               action per step of the run.                               *)
(*   SpecBuild   _build_property_map (sync.py): one call per remote        *)
(*               schema, one action per loop iteration.                    *)
(*   SpecResolve _resolve_relation_targets (sync.py): the thread pool of   *)
(*               one call, its submissions and its fetch_and_store tasks.  *)
(*   SpecFilter  NotionRepository.filter_missing_or_stale_targets          *)
(*               (repository.py) on any page cache, and the fetches        *)
(*               run_full_sync starts for what it returns.                 *)
(*   SpecEdges   NotionRepository.replace_relations_for_page               *)
(*               (repository.py) on the edges _extract_relations_from_page *)
(*               yields for any page, statement by statement, next to a    *)
(*               concurrent get_relations_for_pages.                       *)
(*   SpecSweep   the page sweep of run_full_sync (sync.py) alone, for      *)
(*               schemas with and without a property named "Id".           *)
(*                                                                         *)
(* Python's None is modelled as the empty sequence Null and a present      *)
(* value v as the one-element sequence Some(v), so that optional fields    *)
(* keep one type.                                                          *)
(***************************************************************************)
EXTENDS Integers, Sequences, FiniteSets, TLC

Null == << >>
Some(v) == << v >>

(***************************************************************************)
(* Bounds of the model.                                                    *)
(***************************************************************************)
\* threads that call start_sync / get_status concurrently
NumCallers == 2
\* start_sync calls made over one behaviour
MaxStarts == 2
\* records the remote source returns to one run
MaxPages == 2
\* largest number of seconds a Retry-After header asks for
MaxRetryAfter == 3
\* largest number of pages the remote source splits its records over
MaxQueryPages == 3
\* largest number of records on one page of a query response
MaxPageSize == 2
\* run_full_sync calls made on one store over one behaviour
MaxSyncs == 2
\* properties the remote schema handed to one _build_property_map call has
MaxProps == 3
\* relation targets handed to one _resolve_relation_targets call
MaxTargets == 4

VARIABLES
    lock,       \* sync_manager._lock: the thread that holds it, or NoHolder
    state,      \* sync_manager._state
    callers,    \* per calling thread: position in start_sync and its argument
    returned,   \* the latest return of start_sync / get_status: who, what, the snapshot
    workers,    \* the threads spawned by start_sync, in spawn order
    clock,      \* datetime.utcnow(), as a logical clock
    starts,     \* number of start_sync calls begun
    client,     \* one NotionClient._request call: its locals and what it has done
    twin,       \* the same call, with every 5xx response that has no
                \* Retry-After replaced by a network error
    pager,      \* one query_data_source / query_database generator: the
                \* remote source, its locals and what it has yielded
    repo,       \* the local store (the sqlite database behind NotionRepository)
    sync,       \* one run_full_sync call: its position, locals and result
    store0,     \* the local store as it was when that call began
    today,      \* datetime.utcnow(), in days
    syncs,      \* number of run_full_sync calls begun
    builder,    \* one _build_property_map call: its argument, locals and result
    lookup,     \* one filter_missing_or_stale_targets call on a page cache, and
                \* the fetches run_full_sync starts for its result
    pool,       \* one _resolve_relation_targets call: its argument, the thread
                \* pool's queue and threads, and the tasks begun and finished
    replacer    \* the notion_relations table, one replace_relations_for_page
                \* call on it with its open transaction, and what a concurrent
                \* get_relations_for_pages read

mgrVars == << lock, state, callers, returned, workers, clock, starts >>

clientVars == << client, twin >>

pagerVars == << pager >>

syncVars == << repo, sync, store0, today, syncs >>

builderVars == << builder >>

poolVars == << pool >>

lookupVars == << lookup >>

replacerVars == << replacer >>

vars == << lock, state, callers, returned, workers, clock, starts, client, twin,
           pager, repo, sync, store0, today, syncs, builder, pool,
           lookup, replacer >>

\* what the actions of one component leave alone
outsideMgr ==
    << clientVars, pagerVars, syncVars, builderVars, poolVars, lookupVars,
       replacerVars >>
outsideClient ==
    << mgrVars, pagerVars, syncVars, builderVars, poolVars, lookupVars,
       replacerVars >>
outsidePager ==
    << mgrVars, clientVars, syncVars, builderVars, poolVars, lookupVars,
       replacerVars >>
outsideSync ==
    << mgrVars, clientVars, pagerVars, builderVars, poolVars, lookupVars,
       replacerVars >>
outsideBuilder ==
    << mgrVars, clientVars, pagerVars, syncVars, poolVars, lookupVars,
       replacerVars >>
outsideLookup ==
    << mgrVars, clientVars, pagerVars, syncVars, builderVars, poolVars,
       replacerVars >>
outsidePool ==
    << mgrVars, clientVars, pagerVars, syncVars, builderVars, lookupVars,
       replacerVars >>
outsideReplacer ==
    << mgrVars, clientVars, pagerVars, syncVars, builderVars, lookupVars,
       poolVars >>

Callers == 1 .. NumCallers

NoHolder == << "none", 0 >>
CallerThread(c) == << "caller", c >>
WorkerThread(w) == << "worker", w >>

(***************************************************************************)
(* sync_manager.py                                                         *)
(***************************************************************************)

\* NotionSyncManager.__init__: the initial _state. `run` is a history field
\* (the number of the run the state belongs to), not a key of the dict.
InitialState ==
    [ status |-> "idle", processed |-> 0, total |-> 0, mode |-> "refresh",
      error |-> Null, result |-> Null, started_at |-> Null,
      finished_at |-> Null, run |-> 0 ]

\* Mutant of CanAcquire: the lock excludes nobody.
CanAcquire_NoExclusion(l) == TRUE

\* `with self._lock:` blocks until no thread holds the lock.
CanAcquire(l) == l = NoHolder

\* Mutant of CanRead: get_status reads _state without taking the lock.
CanRead_Unlocked(l) == TRUE

\* get_status: `with self._lock:` around the deepcopy.
CanRead(l) == CanAcquire(l)

\* Mutant of IsRunning: the test compares with the wrong literal.
IsRunning_WrongLiteral(st) == st.status = "started"

\* start_sync: `if self._state.get("status") == "running"`
IsRunning(st) == st.status = "running"

\* deepcopy(self._state)
Snapshot(st) == st

StartUpdate_KeepsProgress(st, force_full, now, run) ==
    [ st EXCEPT !.status = "running",
                !.mode = IF force_full THEN "full" ELSE "refresh",
                !.error = Null,
                !.started_at = Some(now),
                !.finished_at = Null,
                !.run = run ]

StartUpdate_ClearsResult(st, force_full, now, run) ==
    [ st EXCEPT !.status = "running",
                !.processed = 0,
                !.total = 0,
                !.mode = IF force_full THEN "full" ELSE "refresh",
                !.error = Null,
                !.result = Null,
                !.started_at = Some(now),
                !.finished_at = Null,
                !.run = run ]

\* start_sync: the self._state.update({...}) of an accepted start; `result`
\* is not among the updated keys.
StartUpdate(st, force_full, now, run) ==
    [ st EXCEPT !.status = "running",
                !.processed = 0,
                !.total = 0,
                !.mode = IF force_full THEN "full" ELSE "refresh",
                !.error = Null,
                !.started_at = Some(now),
                !.finished_at = Null,
                !.run = run ]

\* Mutant of HolderAfterSpawn: the lock is released before the deepcopy.
HolderAfterSpawn_Released(c) == NoHolder

\* start_sync: Thread(...).start() and the final deepcopy both happen inside
\* `with self._lock:`, so the caller still holds the lock after the spawn.
HolderAfterSpawn(c) == CallerThread(c)

\* _run_sync: "completed" if result.get("ok") else "error"
TerminalStatus(result) == IF result.ok THEN "completed" ELSE "error"

\* _run_sync: None if result.get("ok") else (result.get("error") or "Sync failed")
TerminalError(result) ==
    IF result.ok THEN Null
    ELSE IF result.error # Null /\ result.error # Some("") THEN result.error
    ELSE Some("Sync failed")

(***************************************************************************)
(* sync.py: run_full_sync as the worker sees it.  Each stage either goes   *)
(* on, returns _result(False, msg) (a failure the code catches) or raises  *)
(* (a failure outside every try block).                                    *)
(***************************************************************************)

Result_CountsFetchedOnly(ok, error, fetched_count, upserted_count, run) ==
    [ ok |-> ok, mode |-> "full", fetched_count |-> fetched_count,
      upserted_count |-> 0, error |-> error, run |-> run ]

\* run_full_sync._result
Result(ok, error, fetched_count, upserted_count, run) ==
    [ ok |-> ok, mode |-> "full", fetched_count |-> fetched_count,
      upserted_count |-> upserted_count, error |-> error, run |-> run ]

\* The stages of run_full_sync in program order, up to the page sweep.
StageOrder ==
    << "settings", "repository", "database_id", "retrieve_database",
       "data_source_name", "select_data_source", "prepare", "schema",
       "paginate" >>

\* What can happen in a stage: "ok" (go on), "fail" (caught: return
\* _result(False, ...)), "raise" (not caught: the exception leaves
\* run_full_sync).
StageOutcomes(stage) ==
    CASE stage = "settings"            -> { "ok", "fail" }
      [] stage = "repository"          -> { "ok", "raise" }
      [] stage = "database_id"         -> { "ok", "fail" }
      [] stage = "retrieve_database"   -> { "ok", "fail" }
      [] stage = "data_source_name"    -> { "ok", "raise" }
      [] stage = "select_data_source"  -> { "ok", "fail" }
      [] stage = "prepare"             -> { "ok", "fail" }
      [] stage = "schema"              -> { "ok", "raise" }
      [] stage = "paginate"            -> { "ok", "fail" }
      [] stage = "sweep_write"         -> { "ok", "raise" }
      [] stage = "resolve"             -> { "ok", "raise" }
      [] stage = "materialize"         -> { "ok", "raise" }
      [] stage = "finalize"            -> { "ok", "raise" }

\* The message of the _result(False, ...) a stage returns.
StageError(stage) ==
    CASE stage = "settings"            -> "Notion Einstellungen unvollstaendig"
      [] stage = "database_id"         -> "Fehler beim Pruefen der Database ID"
      [] stage = "retrieve_database"   -> "Fehler beim Laden der Notion Database"
      [] stage = "select_data_source"  -> "Data Source nicht gefunden"
      [] stage = "prepare"             -> "Fehler beim Vorbereiten des Sync"
      [] stage = "paginate"            -> "Fehler waehrend des Syncs"

StageIndex(stage) == CHOOSE i \in 1 .. Len(StageOrder) : StageOrder[i] = stage

NextStage_SkipsOne(stage) ==
    IF StageIndex(stage) + 2 > Len(StageOrder) THEN "report"
    ELSE StageOrder[StageIndex(stage) + 2]

\* The stage after `stage` when it goes on.
NextStage(stage) ==
    IF stage = "paginate" THEN "report"
    ELSE StageOrder[StageIndex(stage) + 1]

PreSweepStages == { StageOrder[i] : i \in 1 .. Len(StageOrder) }

\* Thread(target=self._run_sync, args=(app, force_full)): a fresh worker
\* with its argument.
NewWorker(force_full) ==
    [ pc |-> "settings", force_full |-> force_full, total |-> 0,
      fetched_count |-> 0, upserted_count |-> 0, result |-> Null ]

\* A worker thread that has ended: by returning from _run_sync ("done") or
\* by an exception that left run_full_sync ("raised"). Its argument and
\* locals are gone.
EndedWorker(how) ==
    [ pc |-> how, force_full |-> FALSE, total |-> 0, fetched_count |-> 0,
      upserted_count |-> 0, result |-> Null ]

ResultOf_ModeFromFlag(wk, ok, error, w) ==
    [ Result(ok, error, wk.fetched_count, wk.upserted_count, w) EXCEPT
        !.mode = IF wk.force_full THEN "full" ELSE "refresh" ]

\* sync_manager.py:55: run_full_sync(progress_callback=_report_progress)
\* is called without force_full; its _result has the counts of the run
ResultOf(wk, ok, error, w) ==
    Result(ok, error, wk.fetched_count, wk.upserted_count, w)

\* One step of run_full_sync in worker number w: what worker wk has become
\* after its stage met `outcome`, the query having returned n records.
RunStep(wk, outcome, n, w) ==
    IF outcome = "raise" THEN EndedWorker("raised")
    ELSE IF outcome = "fail"
    THEN [ wk EXCEPT !.pc = "returned",
                     !.result = Some(ResultOf(wk, FALSE, Some(StageError(wk.pc)), w)) ]
    ELSE CASE wk.pc = "paginate" -> [ wk EXCEPT !.pc = "report", !.total = n ]
           [] wk.pc = "sweep_write" ->
                [ wk EXCEPT !.pc = "report",
                            !.fetched_count = wk.fetched_count + 1,
                            !.upserted_count = wk.upserted_count + 1 ]
           [] wk.pc = "resolve" -> [ wk EXCEPT !.pc = "materialize" ]
           [] wk.pc = "materialize" -> [ wk EXCEPT !.pc = "finalize" ]
           [] wk.pc = "finalize" ->
                [ wk EXCEPT !.pc = "returned",
                            !.result = Some(ResultOf(wk, TRUE, Null, w)) ]
           [] OTHER -> [ wk EXCEPT !.pc = NextStage(wk.pc) ]

Alive(w) == workers[w].pc \notin { "done", "raised" }

InFlight == { w \in 1 .. Len(workers) : Alive(w) }

(***************************************************************************)
(* notion_client.py: NotionClient._request                                 *)
(***************************************************************************)

\* `retries = 5`
Retries == 5

\* `backoff = 1`
InitialBackoff == 1

\* The status codes the model's server answers with: success, the two
\* authentication codes, another client error, 429, a server error, and a
\* code above 599 (which `>= 500` accepts and raise_for_status ignores).
Statuses == { 200, 401, 403, 404, 429, 500, 600 }

\* The numbers of seconds a Retry-After header carries in the model.
RetryAfterSeconds == { 0, MaxRetryAfter }

ResponseOf(status, header, seconds) ==
    [ kind |-> "response", status |-> status, header |-> header, seconds |-> seconds ]

\* requests.RequestException raised by session.request (timeout, connection error)
NetworkError ==
    [ kind |-> "network_error", status |-> 0, header |-> "absent", seconds |-> 0 ]

\* Mutant of IsAuthFailure: 403 is not treated as an authentication failure.
IsAuthFailure_Only401(status) == status = 401

\* `resp.status_code in (401, 403)`
IsAuthFailure(status) == status \in { 401, 403 }

\* Mutant of IsRetryable: every error status is retried.
IsRetryable_AnyError(status) == status = 429 \/ status >= 400

\* `resp.status_code == 429 or resp.status_code >= 500`
IsRetryable(status) == status = 429 \/ status >= 500

\* The statuses whose Retry-After header _request reads.
HeaderStatuses == { st \in Statuses : st = 429 \/ st >= 500 }

\* What one attempt can meet: a network error, or a response.  A response's
\* Retry-After header is "absent", "seconds" (a non-negative integer) or
\* "invalid" (a value int() or time.sleep() rejects, such as an HTTP date or
\* a negative number); _request reads the header of retryable responses only.
Outcomes ==
    { NetworkError }
    \cup { ResponseOf(st, "absent", 0) : st \in Statuses }
    \cup { ResponseOf(st, "seconds", n) :
             st \in HeaderStatuses, n \in RetryAfterSeconds }
    \cup { ResponseOf(st, "invalid", 0) : st \in HeaderStatuses }

\* Mutant of IsLastAttempt: the test is off by one.
IsLastAttempt_OffByOne(attempt) == attempt = Retries

\* `attempt == retries - 1`
IsLastAttempt(attempt) == attempt = Retries - 1

\* `backoff *= 2`
NextBackoff(backoff) == backoff * 2

\* requests.Response.raise_for_status raises HTTPError for 400..599 only
RaiseForStatusRaises(status) == 400 <= status /\ status < 600

\* Mutant of RetryAfter: the header is ignored.
RetryAfter_IgnoreHeader(resp, backoff) == backoff

\* `int(resp.headers.get("Retry-After", backoff))`, for a header int() accepts
RetryAfter(resp, backoff) ==
    IF resp.header = "seconds" THEN resp.seconds ELSE backoff

\* The locals of a fresh _request call; `history` and `sleeps` record the
\* outcomes met and the time.sleep calls made, `outcome` how the call ended.
NewCall ==
    [ attempt |-> 0, backoff |-> InitialBackoff, history |-> << >>,
      sleeps |-> << >>, outcome |-> Null ]

\* The call ends: by `return resp.json()` ("ok") or by the named exception.
Ends(cl, how) == [ cl EXCEPT !.outcome = Some(how) ]

\* `time.sleep(delay); backoff *= 2; continue`
SleepAndContinue(cl, delay) ==
    [ cl EXCEPT !.sleeps = Append(@, delay),
                !.backoff = NextBackoff(@),
                !.attempt = @ + 1 ]

\* Mutant of OnNetworkError: the except branch forgets to double the backoff.
OnNetworkError_NoDoubling(cl) ==
    IF IsLastAttempt(cl.attempt) THEN Ends(cl, "RequestException")
    ELSE [ cl EXCEPT !.sleeps = Append(@, cl.backoff), !.attempt = @ + 1 ]

\* `except requests.RequestException:` re-raise on the last attempt, else
\* sleep the backoff, double it and try again
OnNetworkError(cl) ==
    IF IsLastAttempt(cl.attempt) THEN Ends(cl, "RequestException")
    ELSE SleepAndContinue(cl, cl.backoff)

\* The handling of a response, in the order of the if statements
OnResponse(cl, resp) ==
    IF IsAuthFailure(resp.status) THEN Ends(cl, "PermissionError")
    ELSE IF IsRetryable(resp.status) THEN
        IF IsLastAttempt(cl.attempt) /\ RaiseForStatusRaises(resp.status)
        THEN Ends(cl, "HTTPError")
        ELSE IF resp.header = "invalid" THEN Ends(cl, "ValueError")
        ELSE SleepAndContinue(cl, RetryAfter(resp, cl.backoff))
    ELSE IF resp.status >= 400 /\ RaiseForStatusRaises(resp.status)
    THEN Ends(cl, "HTTPError")
    ELSE Ends(cl, "ok")

Looping(cl) == cl.outcome = Null /\ cl.attempt < Retries

\* One iteration of `for attempt in range(retries):` meeting outcome o
Attempt(cl, o) ==
    IF ~ Looping(cl) THEN cl
    ELSE LET met == [ cl EXCEPT !.history = Append(@, o) ]
         IN  IF o.kind = "network_error" THEN OnNetworkError(met)
             ELSE OnResponse(met, o)

\* The loop is left without return or raise: `raise RuntimeError("Max retries exceeded ...")`
LoopExit(cl) ==
    IF cl.outcome = Null /\ cl.attempt >= Retries THEN Ends(cl, "RuntimeError")
    ELSE cl

Is5xx(status) == 500 <= status /\ status < 600

\* What the twin call meets when the call meets o
TwinOutcome(o) ==
    IF o.kind = "response" /\ Is5xx(o.status) /\ o.header = "absent"
    THEN NetworkError
    ELSE o

ClientInit ==
    /\ client = NewCall
    /\ twin = NewCall

ClientAttempt ==
    /\ Looping(client)
    /\ \E o \in Outcomes :
         /\ client' = Attempt(client, o)
         /\ twin' = Attempt(twin, TwinOutcome(o))

ClientLoopExit ==
    /\ client.outcome = Null
    /\ client.attempt >= Retries
    /\ client' = LoopExit(client)
    /\ twin' = LoopExit(twin)

(***************************************************************************)
(* Initial state: the module-level `sync_manager = NotionSyncManager()`.   *)
(***************************************************************************)
InitCaller == [ pc |-> "idle", force_full |-> FALSE, spawned |-> 0 ]

\* A return of start_sync or get_status to caller c: kind is "rejected"
\* (start_sync found a running job), "spawned" (start_sync started one, the
\* run numbered `spawned`) or "status" (get_status).
Return(c, kind, snapshot, spawned) ==
    [ caller |-> c, kind |-> kind, snapshot |-> snapshot, spawned |-> spawned ]

InitMgr ==
    /\ lock = NoHolder
    /\ state = InitialState
    /\ callers = [ c \in Callers |-> InitCaller ]
    /\ returned = Return(0, "none", InitialState, 0)
    /\ workers = << >>
    /\ clock = 1
    /\ starts = 0

(***************************************************************************)
(* start_sync, one action per step of a calling thread.                    *)
(***************************************************************************)

\* start_sync(force_full): enter `with self._lock:`
StartSyncAcquire(c) ==
    /\ callers[c].pc = "idle"
    /\ starts < MaxStarts
    /\ CanAcquire(lock)
    /\ \E force_full \in BOOLEAN :
         callers' = [ callers EXCEPT ![c] =
                        [ pc |-> "start_check", force_full |-> force_full,
                          spawned |-> 0 ] ]
    /\ lock' = CallerThread(c)
    /\ starts' = starts + 1
    /\ UNCHANGED << state, returned, workers, clock >>

\* start_sync: the status test; when running, return deepcopy(_state) and
\* leave the `with` block.
StartSyncCheck(c) ==
    /\ callers[c].pc = "start_check"
    /\ IF IsRunning(state)
       THEN /\ callers' = [ callers EXCEPT ![c] = InitCaller ]
            /\ returned' = Return(c, "rejected", Snapshot(state), 0)
            /\ lock' = NoHolder
       ELSE /\ callers' = [ callers EXCEPT ![c].pc = "start_update" ]
            /\ UNCHANGED << lock, returned >>
    /\ UNCHANGED << state, workers, clock, starts >>

\* start_sync: _state.update(...), then Thread(...).start()
StartSyncUpdate(c) ==
    /\ callers[c].pc = "start_update"
    /\ state' = StartUpdate(state, callers[c].force_full, clock, Len(workers) + 1)
    /\ clock' = clock + 1
    /\ workers' = Append(workers, NewWorker(callers[c].force_full))
    /\ callers' = [ callers EXCEPT ![c].pc = "start_return",
                                   ![c].spawned = Len(workers) + 1 ]
    /\ lock' = HolderAfterSpawn(c)
    /\ UNCHANGED << returned, starts >>

\* start_sync: return deepcopy(self._state) and leave the `with` block
StartSyncReturn(c) ==
    /\ callers[c].pc = "start_return"
    /\ callers' = [ callers EXCEPT ![c] = InitCaller ]
    /\ returned' = Return(c, "spawned", Snapshot(state), callers[c].spawned)
    /\ lock' = NoHolder
    /\ UNCHANGED << state, workers, clock, starts >>

\* get_status: `with self._lock: return deepcopy(self._state)`
GetStatus(c) ==
    /\ callers[c].pc = "idle"
    /\ CanRead(lock)
    /\ returned' = Return(c, "status", Snapshot(state), 0)
    /\ UNCHANGED << lock, state, callers, workers, clock, starts >>

(***************************************************************************)
(* _run_sync, one action per step of a worker thread.                      *)
(***************************************************************************)

\* run_full_sync: the stages before the page sweep (lines 179-269)
WorkerStage(w) ==
    /\ workers[w].pc \in PreSweepStages
    /\ \E outcome \in StageOutcomes(workers[w].pc) :
         \E n \in IF workers[w].pc = "paginate" /\ outcome = "ok"
                   THEN 0 .. MaxPages ELSE { 0 } :
            workers' = [ workers EXCEPT ![w] = RunStep(workers[w], outcome, n, w) ]
    /\ UNCHANGED << lock, state, callers, returned, clock, starts >>

HolderAfterReport_Kept(w) == WorkerThread(w)

\* _report_progress: the end of its `with self._lock:` block
HolderAfterReport(w) == NoHolder

\* _report_progress, first half: enter `with self._lock:` and set processed
WorkerReportProcessed(w) ==
    /\ workers[w].pc = "report"
    /\ CanAcquire(lock)
    /\ lock' = WorkerThread(w)
    /\ state' = [ state EXCEPT !.processed = workers[w].upserted_count ]
    /\ workers' = [ workers EXCEPT ![w].pc = "report_total" ]
    /\ UNCHANGED << callers, returned, clock, starts >>

\* _report_progress, second half: set total and leave the `with` block; then
\* the sweep loop goes on with the next page, or ends
WorkerReportTotal(w) ==
    /\ workers[w].pc = "report_total"
    /\ state' = [ state EXCEPT !.total = workers[w].total ]
    /\ lock' = HolderAfterReport(w)
    /\ workers' = [ workers EXCEPT ![w].pc =
                      IF workers[w].upserted_count < workers[w].total
                      THEN "sweep_write" ELSE "resolve" ]
    /\ UNCHANGED << callers, returned, clock, starts >>

\* run_full_sync: one iteration of `for page in pages:` up to the callback
\* (upsert_page_raw, upsert_row, replace_relations_for_page)
WorkerSweepWrite(w) ==
    /\ workers[w].pc = "sweep_write"
    /\ \E outcome \in StageOutcomes("sweep_write") :
         workers' = [ workers EXCEPT ![w] = RunStep(workers[w], outcome, 0, w) ]
    /\ UNCHANGED << lock, state, callers, returned, clock, starts >>

\* run_full_sync: filter_missing_or_stale_targets / _resolve_relation_targets,
\* update_relation_columns, the three set_meta, return _result(True, None)
WorkerPostSweep(w) ==
    /\ workers[w].pc \in { "resolve", "materialize", "finalize" }
    /\ \E outcome \in StageOutcomes(workers[w].pc) :
         workers' = [ workers EXCEPT ![w] = RunStep(workers[w], outcome, 0, w) ]
    /\ UNCHANGED << lock, state, callers, returned, clock, starts >>

\* _run_sync: enter the final `with self._lock:`; self._state["result"] = result
WorkerSetResult(w) ==
    /\ workers[w].pc = "returned"
    /\ CanAcquire(lock)
    /\ lock' = WorkerThread(w)
    /\ state' = [ state EXCEPT !.result = workers[w].result ]
    /\ workers' = [ workers EXCEPT ![w].pc = "set_status" ]
    /\ UNCHANGED << callers, returned, clock, starts >>

\* _run_sync: self._state["status"] = ...
WorkerSetStatus(w) ==
    /\ workers[w].pc = "set_status"
    /\ state' = [ state EXCEPT !.status = TerminalStatus(workers[w].result[1]) ]
    /\ workers' = [ workers EXCEPT ![w].pc = "set_error" ]
    /\ UNCHANGED << lock, callers, returned, clock, starts >>

\* _run_sync: self._state["error"] = ...
WorkerSetError(w) ==
    /\ workers[w].pc = "set_error"
    /\ state' = [ state EXCEPT !.error = TerminalError(workers[w].result[1]) ]
    /\ workers' = [ workers EXCEPT ![w].pc = "set_finished" ]
    /\ UNCHANGED << lock, callers, returned, clock, starts >>

\* _run_sync: self._state["finished_at"] = ...; leave the `with` block; the
\* thread ends
WorkerSetFinished(w) ==
    /\ workers[w].pc = "set_finished"
    /\ state' = [ state EXCEPT !.finished_at = Some(clock) ]
    /\ clock' = clock + 1
    /\ lock' = NoHolder
    /\ workers' = [ workers EXCEPT ![w] = EndedWorker("done") ]
    /\ UNCHANGED << callers, returned, starts >>

(***************************************************************************)
(* notion_client.py: query_data_source / query_database.  The two          *)
(* generators differ in the path they post to and in nothing else.         *)
(*                                                                         *)
(* A remote source is a sequence of pages, each page the sequence of its   *)
(* records; the records are numbered 1, 2, ... in server order.  The       *)
(* server answers a query without start_cursor with the first page and a   *)
(* query with cursor k with page k; every page but the last has has_more   *)
(* true and carries the cursor of the page after it.                       *)
(***************************************************************************)
Endpoints == { "data_sources", "databases" }

RECURSIVE SumSizes(_, _)
SumSizes(sizes, n) == IF n = 0 THEN 0 ELSE sizes[n] + SumSizes(sizes, n - 1)

PagesOf(sizes) ==
    [ i \in 1 .. Len(sizes) |->
        [ j \in 1 .. sizes[i] |-> SumSizes(sizes, i - 1) + j ] ]

RemoteSources ==
    { PagesOf(sizes) :
        sizes \in UNION { [ 1 .. p -> 0 .. MaxPageSize ] : p \in 1 .. MaxQueryPages } }

RECURSIVE ServerOrder(_)
ServerOrder(source) ==
    IF source = << >> THEN << >>
    ELSE source[1] \o ServerOrder(Tail(source))

PageIndex(start_cursor) == IF start_cursor = Null THEN 1 ELSE start_cursor[1]

QueryResponse(source, start_cursor) ==
    LET k == PageIndex(start_cursor)
    IN  [ results |-> source[k],
          has_more |-> k < Len(source),
          next_cursor |-> IF k < Len(source) THEN Some(k + 1) ELSE Null ]

\* payload = {"page_size": page_size}; no start_cursor unless one is passed
InitialPayload == [ start_cursor |-> Null ]

IsLastPage_Always(data) == TRUE

\* if not data.get("has_more"): break
IsLastPage(data) == ~ data.has_more

\* payload["start_cursor"] = data.get("next_cursor")
NextPayload(payload, data) == [ payload EXCEPT !.start_cursor = data.next_cursor ]

IdlePager ==
    [ pc |-> "idle", endpoint |-> "data_sources", source |-> << >>,
      payload |-> InitialPayload, data |-> Null, pos |-> 0,
      yielded |-> << >>, requests |-> 0 ]

PagerInit == pager = IdlePager

\* the generator is created for one remote source and runs to its first request
QueryStart ==
    /\ pager.pc = "idle"
    /\ \E e \in Endpoints, src \in RemoteSources :
          pager' = [ IdlePager EXCEPT !.pc = "request", !.endpoint = e, !.source = src ]

\* data = self._request("POST", ".../query", json=payload); a failed request
\* raises out of the generator
QueryRequest ==
    /\ pager.pc = "request"
    /\ \E ok \in BOOLEAN :
          pager' =
            IF ok
            THEN [ pager EXCEPT
                     !.pc = "yield",
                     !.data = Some(QueryResponse(pager.source, pager.payload.start_cursor)),
                     !.pos = 1,
                     !.requests = @ + 1 ]
            ELSE [ pager EXCEPT !.pc = "raised", !.requests = @ + 1 ]

\* for result in data.get("results", []): yield result
QueryYield ==
    /\ pager.pc = "yield"
    /\ pager.pos <= Len(pager.data[1].results)
    /\ pager' = [ pager EXCEPT
                    !.yielded = Append(@, pager.data[1].results[pager.pos]),
                    !.pos = @ + 1 ]

\* the end of one loop iteration: break, or take the next cursor
QueryAdvance ==
    /\ pager.pc = "yield"
    /\ pager.pos > Len(pager.data[1].results)
    /\ pager' =
         IF IsLastPage(pager.data[1])
         THEN [ pager EXCEPT !.pc = "done" ]
         ELSE [ pager EXCEPT !.pc = "request",
                             !.payload = NextPayload(pager.payload, pager.data[1]) ]

(***************************************************************************)
(* repository.py: the local store.  A store is a record of                 *)
(*   meta     notion_meta: key -> Null or Some(value)                      *)
(*   columns  the columns of the wide table notion_rows                    *)
(*   rows     notion_rows: record id -> (column -> Null or Some(value))    *)
(*   raw      notion_rows_raw: the ids that have a raw snapshot            *)
(*   edges    notion_relations, a set of edge records of which no two      *)
(*            agree on (from_page_id, property_name, to_page_id)           *)
(*   cache    notion_page_cache: page id -> entry                          *)
(* A store operation yields [store, error]: the store it leaves and Null   *)
(* or the sqlite3 error it raises.  Stored text is a record                *)
(* [kind, items]: kind "text" for a plain string, "strings" for the JSON   *)
(* text of a list of strings, "objects" for the JSON text of a list of     *)
(* {"id": ...} objects, "empty" for the JSON text of an empty list.        *)
(***************************************************************************)
MetaKeys ==
    { "database_id", "data_source_id", "data_source_name", "schema_json",
      "property_map_json", "last_full_sync", "last_incremental_sync",
      "notion_api_version" }

BaseColumns == { "id", "last_edited_time", "created_time", "archived", "url" }

EmptyFunction == [ x \in { } |-> Null ]

\* the database right after ensure_schema created its tables
EmptyStore ==
    [ meta |-> [ k \in MetaKeys |-> Null ],
      columns |-> BaseColumns,
      rows |-> EmptyFunction,
      raw |-> { },
      edges |-> { },
      cache |-> EmptyFunction ]

Done(st) == [ store |-> st, error |-> Null ]
Failed(st, error) == [ store |-> st, error |-> Some(error) ]

Text(s) == Some([ kind |-> "text", items |-> << s >> ])
\* json.dumps of a list: the text "[]" whatever the list was meant to hold
JsonList(kind, list) ==
    Some([ kind |-> IF list = << >> THEN "empty" ELSE kind, items |-> list ])
JsonStrings(list) == JsonList("strings", list)
JsonObjects(list) == JsonList("objects", list)

GetMeta(st, key) == st.meta[key]

SetMeta(st, key, value) == [ st EXCEPT !.meta[key] = Some(value) ]

\* ALTER TABLE notion_rows ADD COLUMN: sqlite refuses a column that exists;
\* the rows already stored read NULL in the new column
RECURSIVE AddColumns(_, _)
AddColumns(st, columns_to_add) ==
    IF columns_to_add = << >> THEN Done(st)
    ELSE LET column == Head(columns_to_add)
         IN  IF column \in st.columns
             THEN Failed(st, "duplicate column name")
             ELSE AddColumns(
                    [ st EXCEPT
                        !.columns = @ \cup { column },
                        !.rows = [ id \in DOMAIN st.rows |->
                                     [ c \in st.columns \cup { column } |->
                                         IF c \in st.columns THEN st.rows[id][c]
                                         ELSE Null ] ] ],
                    Tail(columns_to_add))

IsMissingColumn_Always(column, existing) == TRUE

\* if column and column not in existing
IsMissingColumn(column, existing) == column # "" /\ column \notin existing

RECURSIVE ColumnsToAdd(_, _)
ColumnsToAdd(property_map, existing) ==
    IF property_map = << >> THEN << >>
    ELSE LET column == Head(property_map).column
             rest == ColumnsToAdd(Tail(property_map), existing)
         IN  IF IsMissingColumn(column, existing) THEN << column >> \o rest ELSE rest

\* a property map is the sequence of its entries [name, column, type], in the
\* iteration order of the dict
EnsureWideTable(st, property_map) ==
    AddColumns(st, ColumnsToAdd(property_map, st.columns))

UpsertPageRaw(st, page_id) == Done([ st EXCEPT !.raw = @ \cup { page_id } ])

UpsertRow_Replace(st, page_id, row_data) ==
    IF ~ (DOMAIN row_data \subseteq st.columns)
    THEN Failed(st, "no such column")
    ELSE Done([ st EXCEPT !.rows =
                  [ id \in DOMAIN st.rows \cup { page_id } |->
                      IF id # page_id THEN st.rows[id]
                      ELSE [ c \in st.columns |->
                               IF c \in DOMAIN row_data THEN row_data[c] ELSE Null ] ] ])

\* INSERT ... ON CONFLICT(id) DO UPDATE SET col = excluded.col for the columns
\* of the payload
UpsertRow(st, page_id, row_data) ==
    IF ~ (DOMAIN row_data \subseteq st.columns)
    THEN Failed(st, "no such column")
    ELSE Done([ st EXCEPT !.rows =
                  [ id \in DOMAIN st.rows \cup { page_id } |->
                      IF id # page_id THEN st.rows[id]
                      ELSE [ c \in st.columns |->
                               IF c \in DOMAIN row_data THEN row_data[c]
                               ELSE IF id \in DOMAIN st.rows THEN st.rows[id][c]
                               ELSE Null ] ] ])

SameKey(e, f) ==
    /\ e.from_page_id = f.from_page_id
    /\ e.property_name = f.property_name
    /\ e.to_page_id = f.to_page_id

DeleteEdgesOf_Nothing(edges, page_id) == edges

DeleteEdgesOf_All(edges, page_id) == { }

DeleteEdgesOf_AlsoTargets(edges, page_id) ==
    { e \in edges : e.from_page_id # page_id /\ e.to_page_id # page_id }

\* DELETE FROM notion_relations WHERE from_page_id = ?
DeleteEdgesOf(edges, page_id) == { e \in edges : e.from_page_id # page_id }

\* INSERT OR REPLACE INTO notion_relations, row by row
RECURSIVE InsertEdges(_, _, _)
InsertEdges(edges, page_id, relations) ==
    IF relations = << >> THEN edges
    ELSE LET rel == Head(relations)
             row == [ from_page_id |-> page_id,
                      property_name |-> rel.property_name,
                      property_value |-> rel.property_value,
                      to_page_id |-> rel.to_page_id,
                      position |-> rel.position,
                      value |-> rel.value ]
         IN  InsertEdges({ e \in edges : ~ SameKey(e, row) } \cup { row },
                         page_id, Tail(relations))

ReplaceRelationsForPage(st, page_id, relations) ==
    Done([ st EXCEPT !.edges =
             InsertEdges(DeleteEdgesOf(st.edges, page_id), page_id, relations) ])

\* the entries of one record and one property, ORDER BY position
RECURSIVE SortedByPosition(_)
SortedByPosition(entries) ==
    IF entries = { } THEN << >>
    ELSE LET first == CHOOSE e \in entries :
                        \A f \in entries : e.position <= f.position
         IN  << first >> \o SortedByPosition(entries \ { first })

GetRelationsForPage(st, page_id, prop_name) ==
    SortedByPosition({ e \in st.edges :
                         e.from_page_id = page_id /\ e.property_name = prop_name })

RelationProperties(property_map) ==
    { property_map[i].name : i \in { j \in 1 .. Len(property_map) :
                                       property_map[j].type = "relation" } }

\* relation_columns = {name: meta.get("column") or name}
RelationColumn(property_map, prop_name) ==
    LET entry == property_map[CHOOSE i \in 1 .. Len(property_map) :
                                property_map[i].name = prop_name]
    IN  IF entry.column # "" THEN entry.column ELSE prop_name

\* the column update_relation_columns writes the labels of one property to:
\* relation_columns.get(prop_name), else the property_value of its edges
LabelColumn(property_map, prop_name, entries) ==
    IF prop_name \in RelationProperties(property_map)
    THEN RelationColumn(property_map, prop_name)
    ELSE entries[1].property_value

CachedTitle(st, page_id) ==
    IF page_id \in DOMAIN st.cache THEN st.cache[page_id].title ELSE ""

\* relation_value = entry.get("value") or title or entry.get("to_page_id")
RelationValue(st, entry) ==
    IF entry.value # "" THEN entry.value
    ELSE IF CachedTitle(st, entry.to_page_id) # "" THEN CachedTitle(st, entry.to_page_id)
    ELSE entry.to_page_id

RelationValues(st, entries) ==
    [ i \in 1 .. Len(entries) |-> RelationValue(st, entries[i]) ]

\* row_updates of one record: column -> json.dumps(relation_values)
RowUpdates(st, property_map, page_id) ==
    LET props == { e.property_name : e \in { f \in st.edges : f.from_page_id = page_id } }
        col(p) == LabelColumn(property_map, p, GetRelationsForPage(st, page_id, p))
        written == { p \in props : col(p) # "" }
    IN  [ c \in { col(p) : p \in written } |->
            LET p == CHOOSE q \in written : col(q) = c
            IN  JsonStrings(RelationValues(st, GetRelationsForPage(st, page_id, p))) ]

UpdateRelationColumns(st, property_map) ==
    IF RelationProperties(property_map) = { } THEN Done(st)
    ELSE LET updates == [ id \in DOMAIN st.rows |-> RowUpdates(st, property_map, id) ]
         IN  IF \E id \in DOMAIN st.rows : ~ (DOMAIN updates[id] \subseteq st.columns)
             THEN Failed(st, "no such column")
             ELSE Done([ st EXCEPT !.rows =
                           [ id \in DOMAIN st.rows |->
                               [ c \in st.columns |->
                                   IF c \in DOMAIN updates[id] THEN updates[id][c]
                                   ELSE st.rows[id][c] ] ] ])

MaxAgeDays == 7

\* The text of a synced_at column: none (NULL or ""), the ISO text of a UTC
\* day with the suffix Z, or a text that is no ISO timestamp.
NoText == [ kind |-> "none", day |-> 0 ]
Garbage == [ kind |-> "garbage", day |-> 0 ]

\* datetime.utcnow().isoformat() + "Z"
IsoZ(day) == [ kind |-> "iso", day |-> day ]

\* datetime.fromisoformat(synced_at.replace("Z", "+00:00")) if synced_at else
\* None, with None for a ValueError
ParseSyncedAt(synced_at) ==
    IF synced_at.kind = "iso" THEN Some(synced_at.day) ELSE Null

IsStale_Never(entry, now) == FALSE

\* not synced_dt or synced_dt < cutoff, cutoff = now - timedelta(days=max_age_days)
IsStale(entry, now) ==
    LET synced_dt == ParseSyncedAt(entry.synced_at)
    IN  synced_dt = Null \/ synced_dt[1] < now - MaxAgeDays

FilterMissingOrStaleTargets_MissingOnly(st, ids, now) ==
    { id \in ids : id \notin DOMAIN st.cache }

\* filter_missing_or_stale_targets: the ids with no entry or a stale one
FilterMissingOrStaleTargets(st, ids, now) ==
    { id \in ids : id \notin DOMAIN st.cache \/ IsStale(st.cache[id], now) }

UpsertPageCache_AndRaw(st, page_id, title, url, raw_json, synced_at) ==
    Done([ st EXCEPT !.raw = @ \cup { page_id },
                     !.cache =
             [ id \in DOMAIN st.cache \cup { page_id } |->
                 IF id = page_id
                 THEN [ title |-> title, url |-> url, raw_json |-> raw_json,
                        synced_at |-> synced_at ]
                 ELSE st.cache[id] ] ])

\* INSERT OR REPLACE INTO notion_page_cache
UpsertPageCache(st, page_id, title, url, raw_json, synced_at) ==
    Done([ st EXCEPT !.cache =
             [ id \in DOMAIN st.cache \cup { page_id } |->
                 IF id = page_id
                 THEN [ title |-> title, url |-> url, raw_json |-> raw_json,
                        synced_at |-> synced_at ]
                 ELSE st.cache[id] ] ])

(***************************************************************************)
(* sync.py: run_full_sync against the local store, step by step.           *)
(*                                                                         *)
(* What the run reads from outside is drawn where it is read: the settings *)
(* at the settings check, the database at retrieve_database, the property  *)
(* definitions when the schema is prepared, the pages at the query.        *)
(* Every remote property definition is one entry [name, column, type] of   *)
(* the property map built from it; a page is [id, properties], its         *)
(* properties [name, type, content] in the order of the definitions.       *)
(***************************************************************************)
RecordIds == { "R1", "R2" }

\* the records a relation of R1 can point to: a row of the table, and a
\* page outside it
TargetIds == { "R2", "X" }

RelationLists == { << >>, << "R2" >>, << "R2", "X" >> }

NameEntry == [ name |-> "Name", column |-> "name", type |-> "title" ]
RelEntry == [ name |-> "Rel", column |-> "rel", type |-> "relation" ]

PropertyMaps == { << RelEntry >>, << NameEntry, RelEntry >> }

\* a remote page with a value for every property of the schema
MakePage(id, property_map, targets) ==
    [ id |-> id,
      properties |->
        [ i \in 1 .. Len(property_map) |->
            [ name |-> property_map[i].name,
              type |-> property_map[i].type,
              content |-> IF property_map[i].type = "relation" THEN targets
                          ELSE << id >> ] ] ]

HasRelation(property_map) == RelationProperties(property_map) # { }

\* what the query can return: nothing, or R1 with any relation list
\* followed by R2 with none
PageLists(property_map) ==
    LET lists == IF HasRelation(property_map) THEN RelationLists ELSE { << >> }
    IN  { << >> }
        \cup { << MakePage("R1", property_map, t), MakePage("R2", property_map, << >>) >> :
                 t \in lists }

\* the title of a relation target as retrieve_page returns it ("": untitled)
RemoteTitle(page_id) == IF page_id = "R2" THEN "Title of R2" ELSE ""

MainSource == [ id |-> "ds1", name |-> "Main" ]

\* database.get("data_sources")
DataSourceLists == { << >>, << MainSource >> }

OtherDatabaseId == "db2"

\* the three settings run_full_sync reads; "" stands for a missing value
Settings ==
    [ notion_api_key : { "", "secret" },
      notion_database_id : { "", "db", OtherDatabaseId },
      notion_data_source_name : { "" } ]

MissingFields_TokenOnly(settings) ==
    IF settings.notion_api_key = "" THEN << "API Key" >> ELSE << >>

\* missing_fields
MissingFields(settings) ==
    (IF settings.notion_api_key = "" THEN << "API Key" >> ELSE << >>)
    \o (IF settings.notion_database_id = "" THEN << "Database ID" >> ELSE << >>)

\* the message of a _result(False, ...): its text and the fields it names
SyncError(stage, names) == Some([ text |-> StageError(stage), names |-> names ])

\* the message of a _result(False, str(exc)) for an exception of the store
RaisedError == Some([ text |-> "str(exc)", names |-> << >> ])

IdleSync ==
    [ pc |-> "idle", settings |-> Null, database_id |-> "", data_source_name |-> "",
      preferred_name |-> "",
      data_sources |-> << >>, chosen |-> Null, property_map |-> << >>,
      pages |-> << >>, idx |-> 0, fetched_count |-> 0, upserted_count |-> 0,
      relation_targets |-> { }, missing |-> { }, pending |-> { },
      obtained |-> 0, fetch_failed |-> { }, failed_at |-> "",
      repo_opened |-> FALSE, http_sent |-> FALSE, result |-> Null ]

\* return _result(ok, error): the locals of the call are gone, what the run
\* swept and resolved is kept for the record
Returns(s, ok, error, stage) ==
    [ s EXCEPT !.pc = "returned",
               !.result = Some(Result(ok, error, s.fetched_count, s.upserted_count, syncs)),
               !.failed_at = stage,
               !.data_sources = << >>, !.chosen = Null, !.idx = 0, !.pending = { } ]

\* an exception leaves run_full_sync
Raises(s, stage) ==
    [ s EXCEPT !.pc = "raised", !.failed_at = stage,
               !.data_sources = << >>, !.chosen = Null, !.idx = 0, !.pending = { } ]

\* utils.extract_property_value: title text is the concatenation of its
\* runs, a relation is passed through as the JSON text of its raw list of
\* {"id": ...} objects; a property the page lacks gives None
ExtractPropertyValue(notion_prop, type) ==
    IF notion_prop = Null THEN Null
    ELSE IF type = "relation" THEN JsonObjects(notion_prop[1].content)
    ELSE Text(notion_prop[1].content[1])

PageProperty(page, prop_name) ==
    IF \E i \in 1 .. Len(page.properties) : page.properties[i].name = prop_name
    THEN Some(page.properties[CHOOSE i \in 1 .. Len(page.properties) :
                                 page.properties[i].name = prop_name])
    ELSE Null

\* meta.get("column") or prop_name
ColumnOf(entry) == IF entry.column # "" THEN entry.column ELSE entry.name

\* _row_from_page: the base fields, then one value per entry of the map
RowFromPage(page, property_map) ==
    LET base == [ c \in BaseColumns |->
                    IF c = "id" THEN Text(page.id)
                    ELSE IF c = "archived" THEN Text("0")
                    ELSE Text(c) ]
        mapped == { ColumnOf(property_map[i]) : i \in 1 .. Len(property_map) }
        last(c) == property_map[CHOOSE i \in 1 .. Len(property_map) :
                       /\ ColumnOf(property_map[i]) = c
                       /\ \A j \in 1 .. Len(property_map) :
                            ColumnOf(property_map[j]) = c => j <= i]
    IN  [ c \in BaseColumns \cup mapped |->
            IF c \in mapped
            THEN ExtractPropertyValue(PageProperty(page, last(c).name), last(c).type)
            ELSE base[c] ]

\* property_map.get(prop_name, {}).get("column") or prop_name
PropertyValueOf(property_map, prop_name) ==
    IF \E i \in 1 .. Len(property_map) : property_map[i].name = prop_name
    THEN ColumnOf(property_map[CHOOSE i \in 1 .. Len(property_map) :
                                 property_map[i].name = prop_name])
    ELSE prop_name

\* "value": to_page_id
EdgeValue(to_page_id) == to_page_id

\* _extract_relations_from_page: the edges of the page's relation
\* properties, positions counted from 0 within each property; an entry
\* without id ("") counts in the positions and gives no edge
RECURSIVE RelationsOf(_, _)
RelationsOf(properties, property_map) ==
    IF properties = << >> THEN << >>
    ELSE LET prop == Head(properties)
             rest == RelationsOf(Tail(properties), property_map)
         IN  IF prop.type # "relation" THEN rest
             ELSE SelectSeq([ i \in 1 .. Len(prop.content) |->
                      [ property_name |-> prop.name,
                        property_value |-> PropertyValueOf(property_map, prop.name),
                        to_page_id |-> prop.content[i],
                        position |-> i - 1,
                        value |-> EdgeValue(prop.content[i]) ] ],
                            LAMBDA rel : rel.to_page_id # "") \o rest

ExtractRelationsFromPage(page, property_map) ==
    LET relations == RelationsOf(page.properties, property_map)
    IN  [ relations |-> relations,
          targets |-> { relations[i].to_page_id : i \in 1 .. Len(relations) } ]

\* _ensure_database_id
EnsureDatabaseId_Overwrites(st, database_id) ==
    IF database_id = ""
    THEN [ store |-> st, error |-> Some("Notion Database ID fehlt."), database_id |-> "" ]
    ELSE [ store |-> SetMeta(st, "database_id", database_id), error |-> Null,
           database_id |-> database_id ]

EnsureDatabaseId(st, database_id) ==
    LET stored == GetMeta(st, "database_id")
    IN  IF stored # Null /\ stored # Some("")
        THEN [ store |-> st, error |-> Null, database_id |-> stored[1] ]
        ELSE IF database_id = ""
        THEN [ store |-> st, error |-> Some("Notion Database ID fehlt."),
               database_id |-> "" ]
        ELSE [ store |-> SetMeta(st, "database_id", database_id), error |-> Null,
               database_id |-> database_id ]

\* filter(None, [ds.get("name") for ds in data_sources])
AvailableNames(data_sources) ==
    SelectSeq([ i \in 1 .. Len(data_sources) |-> data_sources[i].name ],
              LAMBDA name : name # "")

\* _select_data_source: by the stored id, else by the desired name (an error
\* if no source has it), else the first source, else None
SelectDataSource(data_sources, st, desired_name) ==
    LET stored == GetMeta(st, "data_source_id")
        byId == { i \in 1 .. Len(data_sources) :
                    stored # Null /\ stored # Some("") /\ data_sources[i].id = stored[1] }
        byName == { i \in 1 .. Len(data_sources) : data_sources[i].name = desired_name }
        first(S) == data_sources[CHOOSE i \in S : \A j \in S : i <= j]
    IN  IF byId # { } THEN [ chosen |-> Some(first(byId)), error |-> Null ]
        ELSE IF desired_name # ""
        THEN IF byName # { } THEN [ chosen |-> Some(first(byName)), error |-> Null ]
             ELSE [ chosen |-> Null,
                    error |-> Some([ text |-> "Data Source nicht gefunden",
                                     names |-> AvailableNames(data_sources) ]) ]
        ELSE IF data_sources # << >> THEN [ chosen |-> Some(data_sources[1]), error |-> Null ]
        ELSE [ chosen |-> Null, error |-> Null ]

SyncInit ==
    /\ repo = EmptyStore
    /\ sync = IdleSync
    /\ store0 = EmptyStore
    /\ today = 0
    /\ syncs = 0

\* run_full_sync() is called; since the run before it, no time or more than
\* max_age_days have passed
SyncCall ==
    /\ sync.pc \in { "idle", "returned", "raised" }
    /\ syncs < MaxSyncs
    /\ \E elapsed \in { 0, MaxAgeDays + 1 } :
          /\ elapsed > 0 => syncs > 0
          /\ today' = today + elapsed
    /\ syncs' = syncs + 1
    /\ sync' = [ IdleSync EXCEPT !.pc = "settings" ]
    /\ store0' = repo
    /\ UNCHANGED repo

\* lines 179-206: read the settings into the locals database_id and
\* data_source_name, return if a mandatory field is missing.  Database
\* identifiers are named in the order
\* of their first use: the second one is configured only on a store that
\* holds an identifier.
SyncSettings ==
    /\ sync.pc = "settings"
    /\ \E settings \in Settings :
          /\ settings.notion_database_id = OtherDatabaseId
             => GetMeta(repo, "database_id") # Null
          /\ sync' =
                IF MissingFields(settings) # << >>
                THEN Returns([ sync EXCEPT !.settings = Some(settings) ], FALSE,
                             SyncError("settings", MissingFields(settings)), "settings")
                ELSE [ sync EXCEPT !.pc = NextStage("settings"),
                                   !.settings = Some(settings),
                                   !.database_id = settings.notion_database_id,
                                   !.data_source_name = settings.notion_data_source_name,
                                   !.preferred_name = settings.notion_data_source_name ]
    /\ UNCHANGED << repo, store0, today, syncs >>

\* line 208: repo = _get_repository(), outside every try
SyncRepository ==
    /\ sync.pc = "repository"
    /\ \E outcome \in StageOutcomes("repository") :
          sync' = IF outcome = "ok"
                  THEN [ sync EXCEPT !.pc = NextStage("repository"), !.repo_opened = TRUE ]
                  ELSE Raises(sync, "repository")
    /\ UNCHANGED << repo, store0, today, syncs >>

\* lines 211-214: _ensure_database_id inside a try; its result replaces the
\* configured identifier
SyncDatabaseId ==
    /\ sync.pc = "database_id"
    /\ \E outcome \in StageOutcomes("database_id") :
          LET r == EnsureDatabaseId(repo, sync.database_id)
          IN  IF outcome = "ok" /\ r.error = Null
              THEN /\ repo' = r.store
                   /\ sync' = [ sync EXCEPT !.pc = NextStage("database_id"),
                                            !.database_id = r.database_id ]
              ELSE /\ repo' = repo
                   /\ sync' = Returns([ sync EXCEPT !.settings = Null ], FALSE,
                                      SyncError("database_id", << >>), "database_id")
    /\ UNCHANGED << store0, today, syncs >>

\* lines 216-221: client.retrieve_database(database_id) inside a try; the
\* settings dict is not read after it
SyncRetrieveDatabase ==
    /\ sync.pc = "retrieve_database"
    /\ \E outcome \in StageOutcomes("retrieve_database"), sources \in DataSourceLists :
          sync' = IF outcome = "ok"
                  THEN [ sync EXCEPT !.pc = NextStage("retrieve_database"),
                                     !.settings = Null,
                                     !.data_sources = sources,
                                     !.http_sent = TRUE ]
                  ELSE Returns([ sync EXCEPT !.settings = Null, !.http_sent = TRUE ], FALSE,
                               SyncError("retrieve_database", << >>), "retrieve_database")
    /\ UNCHANGED << repo, store0, today, syncs >>

\* lines 223-224: the stored data source name, read outside every try
SyncDataSourceName ==
    /\ sync.pc = "data_source_name"
    /\ \E outcome \in StageOutcomes("data_source_name") :
          sync' =
            IF outcome = "raise" THEN Raises(sync, "data_source_name")
            ELSE [ sync EXCEPT
                     !.pc = NextStage("data_source_name"),
                     !.data_source_name =
                        IF @ = "" /\ GetMeta(repo, "data_source_name") # Null
                        THEN GetMeta(repo, "data_source_name")[1] ELSE @ ]
    /\ UNCHANGED << repo, store0, today, syncs >>

\* lines 226-233: _select_data_source inside a try
SyncSelectDataSource ==
    /\ sync.pc = "select_data_source"
    /\ \E outcome \in StageOutcomes("select_data_source") :
          LET r == SelectDataSource(sync.data_sources, repo, sync.data_source_name)
          IN  sync' =
                IF outcome = "ok" /\ r.error = Null
                THEN [ sync EXCEPT !.pc = NextStage("select_data_source"),
                                   !.chosen = r.chosen ]
                ELSE Returns(sync, FALSE,
                             IF outcome = "ok" THEN r.error ELSE RaisedError,
                             "select_data_source")
    /\ UNCHANGED << repo, store0, today, syncs >>

\* lines 235-257: record the chosen source in the meta table, then fetch the
\* property definitions; all inside one try
SyncPrepare ==
    /\ sync.pc = "prepare"
    /\ \E outcome \in StageOutcomes("prepare"), property_map \in PropertyMaps :
          LET written ==
                IF sync.chosen # Null
                THEN SetMeta(SetMeta(repo, "data_source_id", sync.chosen[1].id),
                             "data_source_name", sync.chosen[1].name)
                ELSE SetMeta(repo, "data_source_id", "")
          IN  IF outcome = "ok"
              THEN /\ repo' = written
                   /\ sync' = [ sync EXCEPT !.pc = "save_schema",
                                            !.property_map = property_map,
                                            !.http_sent = @ \/ sync.chosen # Null ]
              ELSE \* the meta write fails, or the request after it does
                   \E at \in IF sync.chosen # Null THEN { "write", "request" }
                              ELSE { "write" } :
                      /\ repo' = IF at = "request" THEN written ELSE repo
                      /\ sync' = Returns([ sync EXCEPT !.http_sent =
                                              @ \/ at = "request" ],
                                         FALSE, SyncError("prepare", << >>), "prepare")
    /\ UNCHANGED << store0, today, syncs >>

\* lines 259-261: save_schema_json and save_property_map, outside every try
SyncSaveSchema ==
    /\ sync.pc = "save_schema"
    /\ \E outcome \in StageOutcomes("schema") :
          IF outcome = "ok"
          THEN /\ repo' = SetMeta(SetMeta(repo, "schema_json", sync.property_map),
                                  "property_map_json", sync.property_map)
               /\ sync' = [ sync EXCEPT !.pc = "ensure_wide_table" ]
          ELSE /\ repo' \in { repo, SetMeta(repo, "schema_json", sync.property_map) }
               /\ sync' = Raises(sync, "schema")
    /\ UNCHANGED << store0, today, syncs >>

\* line 262: repo.ensure_wide_table(property_map), outside every try
SyncEnsureWideTable ==
    /\ sync.pc = "ensure_wide_table"
    /\ \E outcome \in StageOutcomes("schema") :
          LET r == EnsureWideTable(repo, sync.property_map)
          IN  IF outcome = "ok"
              THEN /\ repo' = r.store
                   /\ sync' = IF r.error = Null
                              THEN [ sync EXCEPT !.pc = "paginate" ]
                              ELSE Raises(sync, "ensure_wide_table")
              ELSE /\ repo' = repo
                   /\ sync' = Raises(sync, "schema")
    /\ UNCHANGED << store0, today, syncs >>

\* lines 264-275: pages = list(query_iter) inside a try; a request that
\* fails after `obtained` records were received discards them
SyncPaginate ==
    /\ sync.pc = "paginate"
    /\ \E outcome \in StageOutcomes("paginate"), pages \in PageLists(sync.property_map) :
          sync' =
            IF outcome = "ok"
            THEN [ sync EXCEPT !.pc = IF pages = << >> THEN "filter" ELSE "upsert_page_raw",
                               !.pages = pages, !.idx = 1, !.obtained = Len(pages),
                               !.http_sent = TRUE ]
            ELSE Returns([ sync EXCEPT !.obtained = Len(pages), !.http_sent = TRUE ],
                         FALSE, SyncError("paginate", << >>), "paginate")
    /\ UNCHANGED << repo, store0, today, syncs >>

\* lines 277-286: fetched_count += 1; repo.upsert_page_raw(...)
SyncUpsertPageRaw ==
    /\ sync.pc = "upsert_page_raw"
    /\ \E outcome \in StageOutcomes("sweep_write") :
          LET r == UpsertPageRaw(repo, sync.pages[sync.idx].id)
              s == [ sync EXCEPT !.fetched_count = @ + 1 ]
          IN  IF outcome = "ok" /\ r.error = Null
              THEN repo' = r.store /\ sync' = [ s EXCEPT !.pc = "upsert_row" ]
              ELSE repo' = repo /\ sync' = Raises(s, "sweep_write")
    /\ UNCHANGED << store0, today, syncs >>

\* the row an upsert_row payload is stored as: the text of its `id` field
RowKey(row_data) == row_data["id"][1].items[1]

\* lines 287-288: repo.upsert_row(_row_from_page(page, property_map))
SyncUpsertRow ==
    /\ sync.pc = "upsert_row"
    /\ \E outcome \in StageOutcomes("sweep_write") :
          LET page == sync.pages[sync.idx]
              row_data == RowFromPage(page, sync.property_map)
              r == UpsertRow(repo, RowKey(row_data), row_data)
          IN  IF outcome = "ok" /\ r.error = Null
              THEN repo' = r.store /\ sync' = [ sync EXCEPT !.pc = "replace_relations" ]
              ELSE repo' = repo /\ sync' = Raises(sync, "sweep_write")
    /\ UNCHANGED << store0, today, syncs >>

\* lines 289-294: replace the page's edges, collect its targets, count it
SyncReplaceRelations ==
    /\ sync.pc = "replace_relations"
    /\ \E outcome \in StageOutcomes("sweep_write") :
          LET page == sync.pages[sync.idx]
              x == ExtractRelationsFromPage(page, sync.property_map)
              r == ReplaceRelationsForPage(repo, page.id, x.relations)
          IN  IF outcome = "ok" /\ r.error = Null
              THEN /\ repo' = r.store
                   /\ sync' = [ sync EXCEPT
                                  !.relation_targets = @ \cup x.targets,
                                  !.upserted_count = @ + 1,
                                  !.idx = @ + 1,
                                  !.pc = IF sync.idx = Len(sync.pages) THEN "filter"
                                         ELSE "upsert_page_raw" ]
              ELSE repo' = repo /\ sync' = Raises(sync, "sweep_write")
    /\ UNCHANGED << store0, today, syncs >>

\* line 296: the targets seen in the sweep that have no fresh cache entry
SyncFilterTargets ==
    /\ sync.pc = "filter"
    /\ \E outcome \in StageOutcomes("resolve") :
          LET missing == FilterMissingOrStaleTargets(repo, sync.relation_targets, today)
          IN  sync' =
                IF outcome = "ok"
                THEN [ sync EXCEPT !.missing = missing, !.pending = missing,
                                   !.pc = IF missing = { } THEN "materialize" ELSE "fetch" ]
                ELSE Raises(sync, "resolve")
    /\ UNCHANGED << repo, store0, today, syncs >>

\* what one fetch_and_store task can do: store the page, fail in
\* retrieve_page, or fail in upsert_page_cache
FetchOutcomes == { "ok", "retrieve_page fails", "upsert_page_cache fails" }

AfterFetch(s, page_id) ==
    [ s EXCEPT !.pending = @ \ { page_id },
               !.pc = IF s.pending = { page_id } THEN "materialize" ELSE "fetch" ]

AfterFetchFailure_Propagates(s, page_id) == Raises(s, "resolve")

\* except Exception: the failure is logged (or lost with the task's future)
\* and the other tasks go on
AfterFetchFailure(s, page_id) == AfterFetch(s, page_id)

\* lines 157-174: one fetch_and_store task of the pool; the tasks write to
\* distinct cache rows, so they are taken one at a time in any order
SyncFetchTarget ==
    /\ sync.pc = "fetch"
    /\ \E page_id \in sync.pending, outcome \in FetchOutcomes :
          LET title == IF RemoteTitle(page_id) # "" THEN RemoteTitle(page_id) ELSE page_id
              r == UpsertPageCache(repo, page_id, title, Some("url"), Some(page_id),
                                   IsoZ(today))
          IN  IF outcome = "ok"
              THEN /\ repo' = r.store
                   /\ sync' = AfterFetch([ sync EXCEPT !.http_sent = TRUE ], page_id)
              ELSE /\ repo' = repo
                   /\ sync' = AfterFetchFailure(
                                [ sync EXCEPT !.http_sent = TRUE,
                                              !.fetch_failed = @ \cup { page_id } ],
                                page_id)
    /\ UNCHANGED << store0, today, syncs >>

\* line 300: repo.update_relation_columns(property_map), outside every try
SyncMaterialize ==
    /\ sync.pc = "materialize"
    /\ \E outcome \in StageOutcomes("materialize") :
          LET r == UpdateRelationColumns(repo, sync.property_map)
          IN  IF outcome = "ok" /\ r.error = Null
              THEN repo' = r.store /\ sync' = [ sync EXCEPT !.pc = "finalize" ]
              ELSE repo' = repo /\ sync' = Raises(sync, "materialize")
    /\ UNCHANGED << store0, today, syncs >>

NotionVersion == "2025-09-03"

\* lines 302-307: the three set_meta calls, then return _result(True, None)
SyncFinalize ==
    /\ sync.pc = "finalize"
    /\ \E outcome \in StageOutcomes("finalize") :
          LET one == SetMeta(repo, "last_full_sync", today)
              two == SetMeta(one, "last_incremental_sync", today)
              three == SetMeta(two, "notion_api_version", NotionVersion)
          IN  IF outcome = "ok"
              THEN repo' = three /\ sync' = Returns(sync, TRUE, Null, "")
              ELSE repo' \in { repo, one, two } /\ sync' = Raises(sync, "finalize")
    /\ UNCHANGED << store0, today, syncs >>

(***************************************************************************)
(* utils.py, sync.py: the property codec's column names.  A property name  *)
(* and a column name are sequences of characters.                           *)
(***************************************************************************)
LowerCase(ch) == IF ch = "D" THEN "d" ELSE IF ch = "I" THEN "i" ELSE ch

IsAlphanumeric(ch) == ch \in { "d", "D", "i", "I", "2" }

\* the name in lower case, every run of other characters collapsed to "_"
RECURSIVE Collapsed(_, _)
Collapsed(name, in_run) ==
    IF name = << >> THEN << >>
    ELSE IF IsAlphanumeric(Head(name))
         THEN << LowerCase(Head(name)) >> \o Collapsed(Tail(name), FALSE)
         ELSE IF in_run THEN Collapsed(Tail(name), TRUE)
              ELSE << "_" >> \o Collapsed(Tail(name), TRUE)

Placeholder == << "column" >>

BaseColumnName(name) ==
    IF Collapsed(name, FALSE) = << >> THEN Placeholder ELSE Collapsed(name, FALSE)

Suffixed(base, n) == IF n = 1 THEN base ELSE base \o << "_", ToString(n) >>

IsUsed(column, used_columns) ==
    \E i \in 1 .. Len(used_columns) : used_columns[i] = column

\* the base name, or the base name with the first of _2, _3, ... that none
\* of the names assigned so far has
RECURSIVE Deduplicated(_, _, _)
Deduplicated(base, used_columns, n) ==
    IF IsUsed(Suffixed(base, n), used_columns)
    THEN Deduplicated(base, used_columns, n + 1)
    ELSE Suffixed(base, n)

NormalizeColumnName(name, used_columns) ==
    Deduplicated(BaseColumnName(name), used_columns, 1)

\* the text of a sequence of characters
RECURSIVE Joined(_)
Joined(chars) == IF chars = << >> THEN "" ELSE Head(chars) \o Joined(Tail(chars))

\* the storage type of a remote type
MapNotionTypeToSqlite(notion_type) ==
    CASE notion_type = "number" -> "REAL"
      [] notion_type = "checkbox" -> "INTEGER"
      [] OTHER -> "TEXT"

\* the names of the remote properties of the schemas _build_property_map is
\* given: two that differ in case only, one that differs in punctuation, one
\* that is another's name with a suffix, the empty name, one of symbols, and
\* "Id"
PropertyNames ==
    { << "D", " ", "D" >>, << "d", " ", "d" >>, << "d", "-", " ", "d" >>,
      << "d", " ", "d", " ", "2" >>, << >>, << "-" >>, << "I", "d" >> }

NotionTypes == { "", "number" }

PropertyDefinitions == [ name : PropertyNames, type : NotionTypes ]

\* a schema: the properties of a dict in iteration order, no key twice
Schemas ==
    { props \in UNION { [ 1 .. n -> PropertyDefinitions ] : n \in 0 .. MaxProps } :
        \A i, j \in DOMAIN props : i # j => props[i].name # props[j].name }

IdleBuilder ==
    [ pc |-> "idle", properties |-> << >>, idx |-> 0, used_columns |-> << >>,
      property_map |-> << >>, before |-> Null ]

BuilderInit == builder = IdleBuilder

UsedAfter_Forgets(used_columns, column_name) == used_columns

UsedAfter(used_columns, column_name) == Append(used_columns, column_name)

\* _build_property_map is called with a schema
BuildCall ==
    /\ builder.pc = "idle"
    /\ \E properties \in Schemas :
        builder' = [ IdleBuilder EXCEPT !.pc = "loop", !.properties = properties ]

\* it is called once more with the schema it has just returned the map of
BuildAgain ==
    /\ builder.pc = "returned"
    /\ builder.before = Null
    /\ builder' = [ IdleBuilder EXCEPT !.pc = "loop",
                                       !.properties = builder.properties,
                                       !.before = Some(builder.property_map) ]

\* one iteration of its loop
BuildStep ==
    /\ builder.pc = "loop"
    /\ builder.idx < Len(builder.properties)
    /\ LET prop == builder.properties[builder.idx + 1]
           notion_type == IF prop.type = "" THEN "text" ELSE prop.type
           sqlite_type == MapNotionTypeToSqlite(notion_type)
           column_name == NormalizeColumnName(prop.name, builder.used_columns)
       IN builder' =
            [ builder EXCEPT
                !.idx = @ + 1,
                !.used_columns = UsedAfter(@, column_name),
                !.property_map =
                    Append(@, [ name |-> prop.name, column |-> column_name,
                                type |-> notion_type, sqlite_type |-> sqlite_type ]) ]

BuildReturn ==
    /\ builder.pc = "loop"
    /\ builder.idx = Len(builder.properties)
    /\ builder' = [ builder EXCEPT !.pc = "returned" ]

(***************************************************************************)
(* sync.py: _resolve_relation_targets.  The targets are numbered; the      *)
(* pool is concurrent.futures.ThreadPoolExecutor: submit() queues a work   *)
(* item and starts a thread unless one is idle or max_workers threads      *)
(* exist, a thread takes the queue's items one at a time, and leaving the  *)
(* `with` block waits until the queue is empty and the threads are done.   *)
(***************************************************************************)
MaxWorkers == 3

\* the target_ids argument: the targets in the order of their first
\* occurrence, any of them repeated
TargetLists ==
    { ids \in UNION { [ 1 .. n -> 1 .. MaxTargets ] : n \in 0 .. MaxTargets } :
        \A i \in DOMAIN ids : \A v \in 1 .. ids[i] - 1 : \E j \in 1 .. i - 1 : ids[j] = v }

FromKeys_Keeps(target_ids) == target_ids

\* list(dict.fromkeys(target_ids)): the first occurrence of every id, in order
RECURSIVE FromKeys(_)
FromKeys(target_ids) ==
    IF target_ids = << >> THEN << >>
    ELSE LET front == FromKeys(SubSeq(target_ids, 1, Len(target_ids) - 1))
             last == target_ids[Len(target_ids)]
         IN  IF \E i \in 1 .. Len(front) : front[i] = last THEN front
             ELSE Append(front, last)

CanStartThread_Unbounded(threads) == TRUE

\* _adjust_thread_count: `if num_threads < self._max_workers`
CanStartThread(threads) == threads < MaxWorkers

IdlePool ==
    [ pc |-> "idle", target_ids |-> << >>, ids |-> << >>, submitted |-> 0,
      queue |-> << >>, threads |-> 0, running |-> { },
      begun |-> [ id \in 1 .. MaxTargets |-> 0 ], finished |-> { }, failed |-> { } ]

PoolInit == pool = IdlePool

\* lines 151-153: de-duplicate the ids, return if there is none
ResolveCall ==
    /\ pool.pc = "idle"
    /\ \E target_ids \in TargetLists :
        pool' = [ IdlePool EXCEPT
                    !.target_ids = target_ids,
                    !.ids = FromKeys(target_ids),
                    !.pc = IF FromKeys(target_ids) = << >> THEN "returned"
                           ELSE "submitting" ]

\* lines 173-174: executor.submit(fetch_and_store, pid) for the next id
ResolveSubmit ==
    /\ pool.pc = "submitting"
    /\ pool.submitted < Len(pool.ids)
    /\ LET idle == pool.threads - Cardinality(pool.running)
       IN  pool' = [ pool EXCEPT
                       !.submitted = @ + 1,
                       !.queue = Append(@, pool.ids[pool.submitted + 1]),
                       !.threads = IF idle = 0 /\ CanStartThread(@) THEN @ + 1 ELSE @ ]

\* the end of the `with` block: executor.shutdown(wait=True)
ResolveShutdown ==
    /\ pool.pc = "submitting"
    /\ pool.submitted = Len(pool.ids)
    /\ pool' = [ pool EXCEPT !.pc = "joining" ]

\* a thread of the pool takes the next work item and calls fetch_and_store
TaskBegin ==
    /\ pool.queue # << >>
    /\ Cardinality(pool.running) < pool.threads
    /\ LET page_id == Head(pool.queue)
       IN  pool' = [ pool EXCEPT !.queue = Tail(@),
                                 !.running = @ \cup { page_id },
                                 !.begun[page_id] = @ + 1 ]

\* lines 157-171: fetch_and_store ends, having stored the page or failed
TaskEnd ==
    /\ \E page_id \in pool.running, outcome \in { "ok", "fails" } :
        pool' = [ pool EXCEPT !.running = @ \ { page_id },
                              !.finished = @ \cup { page_id },
                              !.failed = IF outcome = "ok" THEN @ ELSE @ \cup { page_id } ]

\* shutdown(wait=True) has joined the threads; _resolve_relation_targets
\* returns and line 300 starts update_relation_columns
ResolveReturn ==
    /\ pool.pc \in { "joining", "returned" }
    /\ pool.queue = << >>
    /\ pool.running = { }
    /\ pool' = [ pool EXCEPT !.pc = "materialize" ]

(***************************************************************************)
(* repository.py: filter_missing_or_stale_targets on any page cache, and   *)
(* lines 296-298 of run_full_sync, which fetch what it returns.            *)
(***************************************************************************)
PageIds == RecordIds \cup TargetIds

\* datetime.now(timezone.utc) at the call, in days
LookupDay == MaxAgeDays + 1

\* the synced_at texts of the cache's entries: none, no timestamp, and the
\* timestamps of a day before the cutoff, of the cutoff and of the call's day
SyncedAtTexts == { NoText, Garbage, IsoZ(0), IsoZ(LookupDay - MaxAgeDays), IsoZ(LookupDay) }

CacheEntries ==
    { [ title |-> "Title", url |-> Some("url"), raw_json |-> Null, synced_at |-> t ] :
        t \in SyncedAtTexts }

\* the notion_page_cache tables: entries for any of the ids
PageCaches == UNION { [ S -> CacheEntries ] : S \in SUBSET PageIds }

IdleLookup ==
    [ pc |-> "idle", store |-> EmptyStore, ids |-> { }, missing |-> { },
      fetched |-> { } ]

LookupInit == lookup = IdleLookup

\* line 296: repo.filter_missing_or_stale_targets(relation_targets) is called
FilterCall ==
    /\ lookup.pc = "idle"
    /\ \E cache \in PageCaches, ids \in SUBSET PageIds :
        lookup' = [ IdleLookup EXCEPT !.pc = "called",
                                      !.store = [ EmptyStore EXCEPT !.cache = cache ],
                                      !.ids = ids ]

\* it returns the list `missing`
FilterReturn ==
    /\ lookup.pc = "called"
    /\ lookup' = [ lookup EXCEPT
                     !.pc = "filtered",
                     !.missing = FilterMissingOrStaleTargets(lookup.store, lookup.ids,
                                                             LookupDay) ]

\* lines 297-298: if missing_relation_targets: _resolve_relation_targets(...),
\* which fetches each of them
FilterResolve ==
    /\ lookup.pc = "filtered"
    /\ lookup' = [ lookup EXCEPT
                     !.pc = "resolved",
                     !.fetched = IF lookup.missing # { } THEN lookup.missing ELSE { } ]

(***************************************************************************)
(* repository.py: replace_relations_for_page, statement by statement.      *)
(* sqlite3 opens a transaction before the first DELETE or INSERT of a      *)
(* connection; `with conn:` commits it when the block ends and rolls it    *)
(* back when an exception leaves the block.  Until the commit the changes  *)
(* exist in the writing connection only; every repository method opens a   *)
(* connection of its own.                                                  *)
(***************************************************************************)
Rel2Entry == [ name |-> "Rel 2", column |-> "rel_2", type |-> "relation" ]

\* the schemas of the pages whose edges are replaced
EdgePropertyMaps == { << RelEntry >>, << RelEntry, Rel2Entry >> }

\* the `relation` list of a remote page: it can name a record twice and
\* hold an entry without id ("")
RemoteRelations ==
    { << >>, << "R1" >>, << "R2" >>, << "R2", "R1" >>, << "R2", "R2" >>, << "", "R2" >> }

IdleReplacer ==
    [ pc |-> "idle", table |-> { }, working |-> Null, before |-> { },
      page |-> Null, page_id |-> "", relations |-> << >>, rows |-> << >>,
      seen |-> Null ]

ReplacerInit == replacer = IdleReplacer

ReadersView_Uncommitted(r) == IF r.working # Null THEN r.working[1] ELSE r.table

\* get_relations_for_pages: `with self._connect() as conn:`, a connection
\* other than the writer's, reads the committed table
ReadersView(r) == r.table

\* an exception leaves `with self._connect() as conn:`: the transaction is
\* rolled back
Rollback(r) == [ r EXCEPT !.pc = "failed", !.working = Null, !.rows = << >> ]

\* what a statement of the transaction can do: succeed, or raise
\* sqlite3.Error (a locked database, a full disk)
StatementOutcomes == { "ok", "raise" }

\* sync.py:289-290 and repository.py:133-143: the edges of a page become the
\* rows to insert
ReplaceCall ==
    /\ replacer.pc \in { "idle", "done", "failed" }
    /\ \E id \in RecordIds, property_map \in EdgePropertyMaps, targets \in RemoteRelations :
          LET page == MakePage(id, property_map, targets)
              relations == ExtractRelationsFromPage(page, property_map).relations
          IN  replacer' = [ replacer EXCEPT
                              !.pc = "delete", !.before = replacer.table,
                              !.page = Some(page), !.page_id = page.id,
                              !.relations = relations, !.rows = relations,
                              !.seen = Null ]

\* line 145: DELETE FROM notion_relations WHERE from_page_id = ?
ReplaceDelete ==
    /\ replacer.pc = "delete"
    /\ \E outcome \in StatementOutcomes :
          replacer' =
            IF outcome = "ok"
            THEN [ replacer EXCEPT
                     !.working = Some(DeleteEdgesOf(replacer.table, replacer.page_id)),
                     !.pc = IF replacer.rows = << >> THEN "commit" ELSE "insert" ]
            ELSE Rollback([ replacer EXCEPT !.working = Some(replacer.table) ])

\* lines 146-154: executemany, one INSERT OR REPLACE per row
ReplaceInsert ==
    /\ replacer.pc = "insert"
    /\ \E outcome \in StatementOutcomes :
          replacer' =
            IF outcome = "ok"
            THEN [ replacer EXCEPT
                     !.working = Some(InsertEdges(replacer.working[1], replacer.page_id,
                                                  << Head(replacer.rows) >>)),
                     !.rows = Tail(@),
                     !.pc = IF Len(replacer.rows) = 1 THEN "commit" ELSE "insert" ]
            ELSE Rollback(replacer)

\* line 155: conn.commit()
ReplaceCommit ==
    /\ replacer.pc = "commit"
    /\ \E outcome \in StatementOutcomes :
          replacer' =
            IF outcome = "ok"
            THEN [ replacer EXCEPT !.table = replacer.working[1], !.working = Null,
                                   !.pc = "done" ]
            ELSE Rollback(replacer)

\* lines 157-170: a get_relations_for_pages([page_id]) of another thread
\* while the call above is in progress or after it
ReaderSelect ==
    /\ replacer.pc # "idle"
    /\ \E page_id \in RecordIds :
          replacer' = [ replacer EXCEPT !.seen =
                          Some([ page_id |-> page_id,
                                 rows |-> { e \in ReadersView(replacer) :
                                              e.from_page_id = page_id } ]) ]

(***************************************************************************)
(* sync.py: the sweep of run_full_sync for a schema that has a property    *)
(* named "Id".  Such a run reaches the sweep with the property map         *)
(* _build_property_map gives that schema and the pages the query returned. *)
(***************************************************************************)

\* the map entry of the property "Id": its column is what
\* normalize_column_name makes of the name
IdEntry ==
    [ name |-> Joined(<< "I", "d" >>),
      column |-> Joined(NormalizeColumnName(<< "I", "d" >>, << >>)),
      type |-> "rich_text" ]

SweptPropertyMaps == { << NameEntry, RelEntry >>, << IdEntry, RelEntry >> }

\* a remote page: its property Id holds a number of the user's, not the
\* page id
MakeSweptPage(id, property_map, targets) ==
    [ id |-> id,
      properties |->
        [ i \in 1 .. Len(property_map) |->
            [ name |-> property_map[i].name,
              type |-> property_map[i].type,
              content |-> IF property_map[i].type = "relation" THEN targets
                          ELSE IF property_map[i].name = "Id" THEN << "No. 1" >>
                          ELSE << id >> ] ] ]

SweptPageLists(property_map) ==
    { << >> }
    \cup { << MakeSweptPage("R1", property_map, t) >> : t \in RelationLists }
    \cup { << MakeSweptPage("R2", property_map, << >>),
              MakeSweptPage("R1", property_map, t) >> : t \in RelationLists }

\* lines 259-275 of a run that gets as far as the sweep: the map is saved,
\* the wide table has its columns, the query has returned the pages
SweepBegin ==
    /\ sync.pc \in { "idle", "filter", "raised" }
    /\ \E property_map \in SweptPropertyMaps :
       \E pages \in SweptPageLists(property_map) :
          LET saved == SetMeta(SetMeta(repo, "schema_json", property_map),
                               "property_map_json", property_map)
              r == EnsureWideTable(saved, property_map)
          IN  /\ r.error = Null
              /\ repo' = r.store
              /\ sync' = [ IdleSync EXCEPT
                             !.pc = IF pages = << >> THEN "filter" ELSE "upsert_page_raw",
                             !.property_map = property_map,
                             !.pages = pages, !.idx = 1, !.obtained = Len(pages),
                             !.repo_opened = TRUE, !.http_sent = TRUE ]
    /\ UNCHANGED << store0, today, syncs >>

(***************************************************************************)
(* The job manager's specification.                                        *)
(***************************************************************************)
Init ==
    /\ InitMgr /\ ClientInit /\ PagerInit /\ SyncInit /\ BuilderInit /\ PoolInit
    /\ LookupInit /\ ReplacerInit

Next ==
    \/ \E c \in Callers : StartSyncAcquire(c) /\ UNCHANGED outsideMgr
    \/ \E c \in Callers : StartSyncCheck(c) /\ UNCHANGED outsideMgr
    \/ \E c \in Callers : StartSyncUpdate(c) /\ UNCHANGED outsideMgr
    \/ \E c \in Callers : StartSyncReturn(c) /\ UNCHANGED outsideMgr
    \/ \E c \in Callers : GetStatus(c) /\ UNCHANGED outsideMgr
    \/ \E w \in 1 .. Len(workers) : WorkerStage(w) /\ UNCHANGED outsideMgr
    \/ \E w \in 1 .. Len(workers) : WorkerReportProcessed(w) /\ UNCHANGED outsideMgr
    \/ \E w \in 1 .. Len(workers) : WorkerReportTotal(w) /\ UNCHANGED outsideMgr
    \/ \E w \in 1 .. Len(workers) : WorkerSweepWrite(w) /\ UNCHANGED outsideMgr
    \/ \E w \in 1 .. Len(workers) : WorkerPostSweep(w) /\ UNCHANGED outsideMgr
    \/ \E w \in 1 .. Len(workers) : WorkerSetResult(w) /\ UNCHANGED outsideMgr
    \/ \E w \in 1 .. Len(workers) : WorkerSetStatus(w) /\ UNCHANGED outsideMgr
    \/ \E w \in 1 .. Len(workers) : WorkerSetError(w) /\ UNCHANGED outsideMgr
    \/ \E w \in 1 .. Len(workers) : WorkerSetFinished(w) /\ UNCHANGED outsideMgr

Spec == Init /\ [][Next]_vars

\* a thread that can take a step of start_sync or of _run_sync takes it: the
\* operating system schedules every runnable thread
CallerSteps(c) ==
    (StartSyncCheck(c) \/ StartSyncUpdate(c) \/ StartSyncReturn(c)) /\ UNCHANGED outsideMgr

WorkerSteps(w) ==
    /\ w <= Len(workers)
    /\ \/ WorkerStage(w) \/ WorkerReportProcessed(w) \/ WorkerReportTotal(w)
       \/ WorkerSweepWrite(w) \/ WorkerPostSweep(w) \/ WorkerSetResult(w)
       \/ WorkerSetStatus(w) \/ WorkerSetError(w) \/ WorkerSetFinished(w)
    /\ UNCHANGED outsideMgr

SpecLive ==
    /\ Spec
    /\ \A c \in Callers : WF_vars(CallerSteps(c))
    /\ \A w \in 1 .. MaxStarts : WF_vars(WorkerSteps(w))

(***************************************************************************)
(* The client's specification: one _request call against a server that     *)
(* answers each attempt with any outcome.                                   *)
(***************************************************************************)
NextClient ==
    \/ ClientAttempt /\ UNCHANGED outsideClient
    \/ ClientLoopExit /\ UNCHANGED outsideClient

SpecClient == Init /\ [][NextClient]_vars

(***************************************************************************)
(* The paginator's specification: one generator over one remote source.    *)
(***************************************************************************)
NextPaginate ==
    \/ QueryStart /\ UNCHANGED outsidePager
    \/ QueryRequest /\ UNCHANGED outsidePager
    \/ QueryYield /\ UNCHANGED outsidePager
    \/ QueryAdvance /\ UNCHANGED outsidePager

SpecPaginate == Init /\ [][NextPaginate]_vars

(***************************************************************************)
(* The orchestrator's specification: run_full_sync called again and again  *)
(* on one store, each run against any settings and any remote content.     *)
(***************************************************************************)
NextSync ==
    \/ SyncCall /\ UNCHANGED outsideSync
    \/ SyncSettings /\ UNCHANGED outsideSync
    \/ SyncRepository /\ UNCHANGED outsideSync
    \/ SyncDatabaseId /\ UNCHANGED outsideSync
    \/ SyncRetrieveDatabase /\ UNCHANGED outsideSync
    \/ SyncDataSourceName /\ UNCHANGED outsideSync
    \/ SyncSelectDataSource /\ UNCHANGED outsideSync
    \/ SyncPrepare /\ UNCHANGED outsideSync
    \/ SyncSaveSchema /\ UNCHANGED outsideSync
    \/ SyncEnsureWideTable /\ UNCHANGED outsideSync
    \/ SyncPaginate /\ UNCHANGED outsideSync
    \/ SyncUpsertPageRaw /\ UNCHANGED outsideSync
    \/ SyncUpsertRow /\ UNCHANGED outsideSync
    \/ SyncReplaceRelations /\ UNCHANGED outsideSync
    \/ SyncFilterTargets /\ UNCHANGED outsideSync
    \/ SyncFetchTarget /\ UNCHANGED outsideSync
    \/ SyncMaterialize /\ UNCHANGED outsideSync
    \/ SyncFinalize /\ UNCHANGED outsideSync

SpecSync == Init /\ [][NextSync]_vars

(***************************************************************************)
(* The codec's specification: _build_property_map called on any schema.    *)
(***************************************************************************)
NextBuild ==
    \/ BuildCall /\ UNCHANGED outsideBuilder
    \/ BuildAgain /\ UNCHANGED outsideBuilder
    \/ BuildStep /\ UNCHANGED outsideBuilder
    \/ BuildReturn /\ UNCHANGED outsideBuilder

SpecBuild == Init /\ [][NextBuild]_vars

(***************************************************************************)
(* The resolution pool's specification: one _resolve_relation_targets call *)
(* on any list of targets, its tasks run by up to max_workers threads.     *)
(***************************************************************************)
NextResolve ==
    \/ ResolveCall /\ UNCHANGED outsidePool
    \/ ResolveSubmit /\ UNCHANGED outsidePool
    \/ ResolveShutdown /\ UNCHANGED outsidePool
    \/ TaskBegin /\ UNCHANGED outsidePool
    \/ TaskEnd /\ UNCHANGED outsidePool
    \/ ResolveReturn /\ UNCHANGED outsidePool

SpecResolve == Init /\ [][NextResolve]_vars

(***************************************************************************)
(* The cache filter's specification: one call on any cache and any ids.    *)
(***************************************************************************)
NextFilter ==
    \/ FilterCall /\ UNCHANGED outsideLookup
    \/ FilterReturn /\ UNCHANGED outsideLookup
    \/ FilterResolve /\ UNCHANGED outsideLookup

SpecFilter == Init /\ [][NextFilter]_vars

(***************************************************************************)
(* The relation table's specification: replace_relations_for_page called   *)
(* again and again for any page, read by another thread at any time.       *)
(***************************************************************************)
NextEdges ==
    \/ ReplaceCall /\ UNCHANGED outsideReplacer
    \/ ReplaceDelete /\ UNCHANGED outsideReplacer
    \/ ReplaceInsert /\ UNCHANGED outsideReplacer
    \/ ReplaceCommit /\ UNCHANGED outsideReplacer
    \/ ReaderSelect /\ UNCHANGED outsideReplacer

SpecEdges == Init /\ [][NextEdges]_vars

(***************************************************************************)
(* The sweep's specification: the page sweep of run after run on one       *)
(* store, for schemas with and without a property named "Id".              *)
(***************************************************************************)
NextSweep ==
    \/ SweepBegin /\ UNCHANGED outsideSync
    \/ SyncUpsertPageRaw /\ UNCHANGED outsideSync
    \/ SyncUpsertRow /\ UNCHANGED outsideSync
    \/ SyncReplaceRelations /\ UNCHANGED outsideSync

SpecSweep == Init /\ [][NextSweep]_vars

(***************************************************************************)
(* Properties of the job manager (checked under Spec).                     *)
(***************************************************************************)

\* C1: in every interleaving of start_sync calls with the background
\* worker, at most one orchestrator execution is in flight at any time, and
\* it is the one spawned last: start calls made while a run is `running`
\* add no second execution.
C1_SingleFlight ==
    /\ Cardinality(InFlight) <= 1
    /\ \A w \in InFlight : w = Len(workers)

\* C1 witness: a second start_sync was made and returned while the first run
\* was in flight, and there is still exactly one worker.
C1_Witness ==
    /\ starts = 2
    /\ returned.kind = "rejected"
    /\ Len(workers) = 1
    /\ InFlight = { 1 }

\* C2: a start_sync call made while status is `running` spawns no thread,
\* changes no field of JobState whatever force_full is, and returns a
\* snapshot equal to the state at that moment; a worker thread only ever
\* appears through a start_sync call that found the status not `running`
\* (the rejected request is neither queued nor merged).
C2_RejectedStep ==
    \A c \in Callers :
        ( /\ callers[c].pc = "start_check"
          /\ state.status = "running"
          /\ callers'[c] # callers[c] )
        => /\ state' = state
           /\ workers' = workers
           /\ clock' = clock
           /\ callers'[c].pc = "idle"
           /\ returned' = Return(c, "rejected", state, 0)

C2_SpawnStep ==
    Len(workers') # Len(workers)
    => /\ Len(workers') = Len(workers) + 1
       /\ \E c \in Callers :
            /\ callers[c].pc = "start_update"
            /\ callers'[c].pc = "start_return"
            /\ state.status # "running"

C2_RejectedStartIsNoOp == [][C2_RejectedStep /\ C2_SpawnStep]_vars

\* C2 witness: a start_sync was rejected, the run it met has finished since,
\* and no second worker exists.
C2_Witness ==
    /\ returned.kind = "rejected"
    /\ returned.snapshot.status = "running"
    /\ state.status \in { "completed", "error" }
    /\ Len(workers) = 1
    /\ lock = NoHolder

\* C3 (as claimed): every job that start_sync has put into `running` leaves
\* `running` and reaches `completed` or `error`, whatever failure the
\* orchestrator meets.  As a property a finite run refutes: whenever the
\* status is `running`, the worker thread of that run is still alive (so it
\* can still make the terminal transition).
C3_RunningJobHasLiveWorker ==
    state.status = "running" => state.run \in InFlight

\* C4: a start_sync call made while status is idle, completed or error
\* transitions the state to `running`, spawns exactly one orchestrator
\* execution, and returns a snapshot with status=running, processed=0,
\* total=0, error=null, finished_at=null that belongs to the job just
\* spawned and shows none of its progress, however fast the worker runs.
C4_SpawnedSnapshot ==
    returned.kind = "spawned"
    => /\ returned.snapshot.status = "running"
       /\ returned.snapshot.processed = 0
       /\ returned.snapshot.total = 0
       /\ returned.snapshot.error = Null
       /\ returned.snapshot.finished_at = Null
       /\ returned.snapshot.run = returned.spawned
       /\ ( returned.snapshot.result # Null
            => returned.snapshot.result[1].run < returned.spawned )

C4_AcceptedStep ==
    \A c \in Callers :
        /\ ( /\ callers[c].pc = "start_check"
             /\ state.status \in { "idle", "completed", "error" }
             /\ callers'[c] # callers[c] )
           => callers'[c].pc = "start_update"
        /\ ( /\ callers[c].pc = "start_update"
             /\ callers'[c] # callers[c] )
           => /\ state.status \in { "idle", "completed", "error" }
              /\ state'.status = "running"
              /\ Len(workers') = Len(workers) + 1
              /\ workers'[Len(workers')] = NewWorker(callers[c].force_full)
              /\ callers'[c].pc = "start_return"
        /\ ( /\ callers[c].pc = "start_return"
             /\ callers'[c] # callers[c] )
           => /\ returned'.kind = "spawned"
              /\ returned'.caller = c
              /\ workers' = workers

C4_AcceptedStart == []C4_SpawnedSnapshot /\ [][C4_AcceptedStep]_vars

\* C4 witness: a start_sync made after a finished run has returned its
\* snapshot, while the worker it spawned has already run run_full_sync to
\* its end and waits for the lock.
C4_Witness ==
    /\ returned.kind = "spawned"
    /\ returned.spawned = 2
    /\ returned.snapshot.result # Null
    /\ workers[2].pc = "returned"
    /\ state = returned.snapshot

\* What C5 calls a consistent state.
Consistent(s) ==
    /\ s.status = "completed"
       => /\ s.result # Null /\ s.result[1].ok /\ s.result[1].run = s.run
          /\ s.error = Null
          /\ s.finished_at # Null
    /\ s.status = "error"
       => /\ s.error # Null
          /\ s.result # Null /\ ~ s.result[1].ok /\ s.result[1].run = s.run
          /\ s.finished_at # Null
    /\ s.status = "running"
       => /\ s.error = Null
          /\ s.finished_at = Null
          /\ ( s.result # Null => s.result[1].run < s.run )
    /\ s.status = "idle" => s = InitialState

\* C5: every snapshot returned by get_status or start_sync is a consistent
\* state: completed implies result.ok, no error and finished_at set; error
\* implies an error, a result that is not ok and finished_at set; running
\* implies no error, no finished_at and no result of the same run.
C5_SnapshotsConsistent ==
    returned.kind # "none" => Consistent(returned.snapshot)

\* C5 witness: get_status returned the terminal state of a failed second run.
C5_Witness ==
    /\ returned.kind = "status"
    /\ returned.snapshot.status = "error"
    /\ returned.snapshot.run = 2

(***************************************************************************)
(* Properties of NotionClient._request (checked under SpecClient).         *)
(***************************************************************************)

RECURSIVE Doubled(_)
\* 1 s doubled n times
Doubled(n) == IF n = 0 THEN InitialBackoff ELSE 2 * Doubled(n - 1)

Is429NoHeader(o) == o.kind = "response" /\ o.status = 429 /\ o.header = "absent"

Min(a, b) == IF a < b THEN a ELSE b

\* C6: when every response to one _request call is 429 without Retry-After,
\* the client sends exactly 5 requests, sleeps exactly 4 times with delays
\* 1, 2, 4, 8 s, and after the 5th response raises the transport failure
\* (HTTPError) without sleeping again.
C6_Exhausted429 ==
    ( \A i \in 1 .. Len(client.history) : Is429NoHeader(client.history[i]) )
    => /\ Len(client.history) <= 5
       /\ client.sleeps = [ i \in 1 .. Min(Len(client.history), 4) |-> Doubled(i - 1) ]
       /\ client.outcome = IF Len(client.history) = 5 THEN Some("HTTPError") ELSE Null

\* C6 witness: five 429 responses without Retry-After were met and the call
\* has ended.
C6_Witness ==
    /\ Len(client.history) = 5
    /\ \A i \in 1 .. 5 : Is429NoHeader(client.history[i])
    /\ client.sleeps = << 1, 2, 4, 8 >>
    /\ client.outcome = Some("HTTPError")

\* C7: a 401 or 403 response received at any attempt ends the call at once
\* with the authentication failure (PermissionError): it is the last outcome
\* met, and the only sleeps are those of the earlier retries.
C7_AuthFailsAtOnce ==
    \A i \in 1 .. Len(client.history) :
        ( client.history[i].kind = "response" /\ client.history[i].status \in { 401, 403 } )
        => /\ i = Len(client.history)
           /\ client.outcome = Some("PermissionError")
           /\ Len(client.sleeps) = i - 1

\* C7 witness: a 403 on the third attempt, after a network error and a 429.
C7_Witness ==
    /\ Len(client.history) = 3
    /\ client.history[1].kind = "network_error"
    /\ client.history[2].status = 429
    /\ client.history[3].status = 403
    /\ client.outcome = Some("PermissionError")

\* C8: a 4xx response other than 401, 403 and 429 received at any attempt
\* ends the call at once with the request failure (HTTPError): it is the last
\* outcome met, and the only sleeps are those of the earlier retries.
C8_Other4xxFailsAtOnce ==
    \A i \in 1 .. Len(client.history) :
        ( /\ client.history[i].kind = "response"
          /\ 400 <= client.history[i].status /\ client.history[i].status < 500
          /\ client.history[i].status \notin { 401, 403, 429 } )
        => /\ i = Len(client.history)
           /\ client.outcome = Some("HTTPError")
           /\ Len(client.sleeps) = i - 1

\* C8 witness: a 404 on the second attempt, after a 500.
C8_Witness ==
    /\ Len(client.history) = 2
    /\ client.history[1].status = 500
    /\ client.history[2].status = 404
    /\ client.outcome = Some("HTTPError")

\* C9: network errors are retried exactly like 5xx responses without
\* Retry-After: the call in which each such response is replaced by a
\* network error makes the same number of attempts (at most 5), sleeps the
\* same durations and has the same backoff, ends when the call ends, and a
\* failure (5xx or network error) on the 5th attempt is surfaced to the caller.
C9_NetworkErrorLike5xx ==
    /\ twin.attempt = client.attempt
    /\ twin.backoff = client.backoff
    /\ twin.sleeps = client.sleeps
    /\ Len(twin.history) = Len(client.history)
    /\ Len(client.history) <= 5
    /\ (twin.outcome = Null) = (client.outcome = Null)
    /\ (twin.outcome = Some("ok")) = (client.outcome = Some("ok"))
    /\ \A cl \in { client, twin } :
         ( /\ Len(cl.history) = 5
           /\ \/ cl.history[5].kind = "network_error"
              \/ Is5xx(cl.history[5].status) )
         => cl.outcome \in { Some("HTTPError"), Some("RequestException") }

\* C9 witness: 5xx responses without Retry-After on attempts 2 and 5 of the
\* call, network errors in their place in the twin, both calls failed.
C9_Witness ==
    /\ Len(client.history) = 5
    /\ client.history[2] = ResponseOf(500, "absent", 0)
    /\ client.history[5] = ResponseOf(500, "absent", 0)
    /\ twin.history[2] = NetworkError
    /\ twin.history[5] = NetworkError
    /\ client.outcome = Some("HTTPError")
    /\ twin.outcome = Some("RequestException")

IsRetryableResponse(o) ==
    o.kind = "response" /\ (o.status = 429 \/ Is5xx(o.status))

IsPrefix(s, t) == Len(s) <= Len(t) /\ \A i \in 1 .. Len(s) : s[i] = t[i]

\* C11: for a remote source of N records split over P pages (only the last
\* page has has_more = false), either generator yields the records in server
\* order without repetition, never issues more than P query requests, and
\* when it stops it has yielded exactly the N records, has issued exactly P
\* requests and the response it stopped on is the one whose has_more is
\* false.
C11_Pagination ==
    pager.pc # "idle" =>
        /\ IsPrefix(pager.yielded, ServerOrder(pager.source))
        /\ pager.requests <= Len(pager.source)
        /\ pager.pc = "done" =>
              /\ pager.yielded = ServerOrder(pager.source)
              /\ pager.requests = Len(pager.source)
              /\ ~ pager.data[1].has_more

\* C11 witness: query_database has finished over a source of three pages, two
\* of them full, and has yielded at least four records.
C11_Witness ==
    /\ pager.pc = "done"
    /\ pager.endpoint = "databases"
    /\ Len(pager.source) = 3
    /\ Len(pager.yielded) >= 4
    /\ pager.requests = 3

(***************************************************************************)
(* Properties of the local store and of run_full_sync (checked under       *)
(* SpecSync).                                                              *)
(***************************************************************************)
Ended == sync.pc \in { "returned", "raised" }

Succeeded == sync.pc = "returned" /\ sync.result[1].ok

\* the step in which repo.ensure_wide_table(property_map) runs
EnsureWideTableStep == sync.pc = "ensure_wide_table" /\ sync'.pc # "ensure_wide_table"

\* C12: over any sequence of ensure_wide_table calls, with any property maps
\* (the same map again, a map without a column created earlier), no call
\* fails with a duplicate-column error, a column of the wide table once
\* present is present in every later state, and ensure_wide_table changes
\* no stored row value.
C12_AdditiveStep ==
    /\ repo.columns \subseteq repo'.columns
    /\ EnsureWideTableStep =>
          /\ sync'.failed_at # "ensure_wide_table"
          /\ DOMAIN repo'.rows = DOMAIN repo.rows
          /\ \A id \in DOMAIN repo.rows : \A c \in repo.columns :
                repo'.rows[id][c] = repo.rows[id][c]

C12_SchemaAdditive == [][C12_AdditiveStep]_vars

\* C12 witness: the second run has called ensure_wide_table with a map that
\* lacks the column `name` created by the first; the column and the value R1
\* has in it are still there.
C12_Witness ==
    /\ syncs = 2
    /\ sync.pc = "paginate"
    /\ sync.property_map = << RelEntry >>
    /\ "name" \in repo.columns
    /\ "R1" \in DOMAIN repo.rows
    /\ repo.rows["R1"]["name"] = Text("R1")

\* the relation properties of a page, and the stored edges of one of them
RelationPropertiesOf(page) ==
    { i \in 1 .. Len(page.properties) : page.properties[i].type = "relation" }

StoredEdges(id, prop_name) ==
    { e \in repo.edges : e.from_page_id = id /\ e.property_name = prop_name }

\* C13: once replace_relations_for_page has run for a swept record, the
\* stored edges from that record are exactly the edges of its new relation
\* set, one per target at the target's position, and none is left from an
\* earlier sync (an empty set leaves no edge): after a shrink from {A,B} to
\* {A} only the edge to A remains.
C13_EdgesReplaced ==
    \A k \in 1 .. sync.upserted_count :
        LET page == sync.pages[k]
        IN  /\ \A e \in repo.edges :
                  e.from_page_id = page.id =>
                      \E i \in RelationPropertiesOf(page) :
                          /\ e.property_name = page.properties[i].name
                          /\ e.position + 1 \in 1 .. Len(page.properties[i].content)
                          /\ page.properties[i].content[e.position + 1] = e.to_page_id
            /\ \A i \in RelationPropertiesOf(page) :
                  \A j \in 1 .. Len(page.properties[i].content) :
                      \E e \in StoredEdges(page.id, page.properties[i].name) :
                          e.to_page_id = page.properties[i].content[j] /\ e.position = j - 1

\* C13 witness: R1 had edges to R2 and X when the second run began, the run
\* swept R1 with the relation set {R2}, and exactly the edge to R2 is stored.
C13_Witness ==
    /\ syncs = 2
    /\ Succeeded
    /\ { e.to_page_id : e \in { f \in store0.edges : f.from_page_id = "R1" } } = { "R2", "X" }
    /\ sync.pages # << >>
    /\ sync.pages[1].id = "R1"
    /\ sync.pages[1].properties[Len(sync.property_map)].content = << "R2" >>
    /\ { e.to_page_id : e \in { f \in repo.edges : f.from_page_id = "R1" } } = { "R2" }

\* the label the claim gives an edge: the cached title of its target, the
\* raw target id when the cache has no title for it
ClaimedLabel(e) ==
    IF e.to_page_id \in DOMAIN repo.cache /\ repo.cache[e.to_page_id].title # ""
    THEN repo.cache[e.to_page_id].title
    ELSE e.to_page_id

ClaimedLabels(id, prop_name) ==
    LET entries == SortedByPosition(StoredEdges(id, prop_name))
    IN  [ i \in 1 .. Len(entries) |-> ClaimedLabel(entries[i]) ]

\* C14: after a successful sync, for every record and every relation
\* property, the relation display column holds the JSON array of the labels
\* of the record's edges in position order, the label of an edge being the
\* cached title of its target when there is one and the raw target id only
\* when there is none.
C14_DisplayColumnHoldsTitles ==
    Succeeded =>
        \A id \in DOMAIN repo.rows :
            \A p \in RelationProperties(sync.property_map) :
                repo.rows[id][RelationColumn(sync.property_map, p)]
                    = JsonStrings(ClaimedLabels(id, p))

\* the step in which repo.update_relation_columns(property_map) runs
MaterializeStep == sync.pc = "materialize" /\ sync'.pc = "finalize"

\* the column that holds the raw relation value written by upsert_row
RawRelationColumn(prop_name) ==
    ColumnOf(sync.property_map[CHOOSE i \in 1 .. Len(sync.property_map) :
                                  sync.property_map[i].name = prop_name])

\* C15: update_relation_columns leaves the raw relation value column of
\* every row as upsert_row wrote it (the labels go to another column).
C15_RawColumnStep ==
    MaterializeStep =>
        \A id \in DOMAIN repo.rows :
            \A p \in RelationProperties(sync.property_map) :
                repo'.rows[id][RawRelationColumn(p)] = repo.rows[id][RawRelationColumn(p)]

C15_RawRelationColumnUnchanged == [][C15_RawColumnStep]_vars

\* C16: after a successful sync in which every target fetch succeeded,
\* every relation target seen during the page sweep has a page-cache entry
\* with a title, a url, a snapshot and a synced_at at most 7 days old,
\* whether or not the target is a row of the wide table.
C16_TargetsCachedAndFresh ==
    (Succeeded /\ sync.fetch_failed = { }) =>
        \A t \in sync.relation_targets :
            /\ t \in DOMAIN repo.cache
            /\ repo.cache[t].title # ""
            /\ repo.cache[t].url # Null
            /\ repo.cache[t].raw_json # Null
            /\ repo.cache[t].synced_at.kind = "iso"
            /\ today - repo.cache[t].synced_at.day <= 7

\* C16 witness: more than 7 days after the first run cached X, a page that
\* is no row of the table, the second run saw X again, fetched it and
\* succeeded; its entry is of today.
C16_Witness ==
    /\ syncs = 2
    /\ Succeeded
    /\ sync.fetch_failed = { }
    /\ "X" \in sync.relation_targets
    /\ "X" \notin DOMAIN repo.rows
    /\ "X" \in DOMAIN store0.cache
    /\ today - store0.cache["X"].synced_at.day > 7
    /\ repo.cache["X"].synced_at = IsoZ(today)

\* C17: a failure in fetching or caching one relation target never aborts
\* the sync: once a task has failed, every stale or missing target whose own
\* task did not fail still gets its cache entry, the run goes on to
\* materialization and finalization, no exception leaves the run because of
\* the fetch, and the result is ok = true (also when every task failed).
C17_FetchFailureSwallowed ==
    sync.fetch_failed # { } =>
        /\ sync.pc \in { "fetch", "materialize", "finalize", "returned", "raised" }
        /\ sync.pc = "raised" => sync.failed_at \in { "materialize", "finalize" }
        /\ sync.pc # "fetch" =>
              \A t \in sync.missing \ sync.fetch_failed :
                  t \in DOMAIN repo.cache /\ repo.cache[t].synced_at = IsoZ(today)
        /\ sync.pc = "returned" =>
              /\ sync.result[1].ok
              /\ sync.result[1].error = Null
              /\ GetMeta(repo, "last_full_sync") = Some(today)

\* C17 witness: of the two missing targets the fetch of X failed, R2 was
\* cached all the same, and the run returned ok = true.
C17_Witness ==
    /\ Succeeded
    /\ sync.missing = { "R2", "X" }
    /\ sync.fetch_failed = { "X" }
    /\ "R2" \in DOMAIN repo.cache
    /\ "X" \notin DOMAIN repo.cache

\* the stages of steps 1-4: settings, database identity, schema-container
\* discovery, schema build and persistence
StepsOneToFour ==
    { "settings", "repository", "database_id", "retrieve_database",
      "data_source_name", "select_data_source", "prepare", "schema",
      "ensure_wide_table" }

\* C18: a failure in steps 1-4 of run_full_sync returns a result with
\* ok = false, fetched_count = 0 and upserted_count = 0 and leaves the local
\* store as it was before the call.
C18_EarlyFailureLeavesStore ==
    (Ended /\ sync.failed_at \in StepsOneToFour) =>
        /\ sync.pc = "returned"
        /\ ~ sync.result[1].ok
        /\ sync.result[1].fetched_count = 0
        /\ sync.result[1].upserted_count = 0
        /\ repo = store0

\* C19: a failure during the page sweep (in a pagination request, or in a
\* store write on the k-th record) ends the run with a result ok = false
\* whose fetched_count and upserted_count are the numbers of records the
\* sweep had fetched and upserted before the failure.
C19_SweepFailureReportsCounts ==
    (Ended /\ sync.failed_at \in { "paginate", "sweep_write" }) =>
        /\ sync.pc = "returned"
        /\ ~ sync.result[1].ok
        /\ sync.result[1].fetched_count = sync.fetched_count
        /\ sync.result[1].upserted_count = sync.upserted_count

\* C20: when the access token, the database identifier or both are missing
\* from the settings, run_full_sync returns ok = false with a message that
\* names exactly the missing fields, and it does so before the repository is
\* opened and before any HTTP request is sent.
C20_MissingSettingsNamed ==
    \A settings \in Settings :
        ( /\ sync.settings = Some(settings)
          /\ settings.notion_api_key = "" \/ settings.notion_database_id = "" )
        => /\ sync.pc = "returned"
           /\ ~ sync.result[1].ok
           /\ LET names == sync.result[1].error[1].names
              IN  /\ (\E i \in 1 .. Len(names) : names[i] = "API Key")
                        <=> settings.notion_api_key = ""
                  /\ (\E i \in 1 .. Len(names) : names[i] = "Database ID")
                        <=> settings.notion_database_id = ""
           /\ ~ sync.repo_opened
           /\ ~ sync.http_sent
           /\ repo = store0

\* C20 witness: a run whose settings had neither field has returned, naming
\* both.
C20_Witness ==
    /\ sync.pc = "returned"
    /\ sync.settings = Some([ notion_api_key |-> "", notion_database_id |-> "",
                              notion_data_source_name |-> "" ])
    /\ sync.result[1].error[1].names = << "API Key", "Database ID" >>

(***************************************************************************)
(* Properties of the property codec (checked under SpecBuild).             *)
(***************************************************************************)
ColumnsOf(property_map) == [ i \in 1 .. Len(property_map) |-> property_map[i].column ]

\* C21: for every ordered schema, _build_property_map gives the properties
\* pairwise distinct column names; a name whose normal form is taken gets
\* that form with the first free suffix of _2, _3, ..., in input order (so
\* "D D" followed by "d d" become d_d and d_d_2); and the same schema in the
\* same order gets the same names again.
C21_ColumnNamesDistinctAndStable ==
    LET columns == ColumnsOf(builder.property_map)
    IN /\ \A i, j \in DOMAIN columns : i # j => columns[i] # columns[j]
       /\ \A i \in DOMAIN columns :
            LET base == BaseColumnName(builder.properties[i].name)
                earlier == { columns[j] : j \in 1 .. i - 1 }
            IN \E n \in 1 .. i :
                /\ columns[i] = Suffixed(base, n)
                /\ \A m \in 1 .. n - 1 : Suffixed(base, m) \in earlier
       /\ ( /\ Len(columns) >= 2
            /\ builder.properties[1].name = << "D", " ", "D" >>
            /\ builder.properties[2].name = << "d", " ", "d" >> )
          => /\ columns[1] = << "d", "_", "d" >>
             /\ columns[2] = << "d", "_", "d", "_", "2" >>
       /\ (builder.pc = "returned" /\ builder.before # Null)
          => builder.property_map = builder.before[1]

C21_Witness ==
    /\ builder.pc = "returned"
    /\ builder.before # Null
    /\ ColumnsOf(builder.property_map) =
        << << "d", "_", "d" >>, << "d", "_", "d", "_", "2" >>,
           << "d", "_", "d", "_", "2", "_", "2" >> >>

(***************************************************************************)
(* Further properties of the orchestrator (checked under SpecSync).         *)
(***************************************************************************)

\* the source the stated priority selects: by the cached id, else by the
\* configured name, else the first one, else none
ByPriority(data_sources, cached_id, preferred) ==
    LET byId == { i \in 1 .. Len(data_sources) :
                    cached_id # Null /\ Some(data_sources[i].id) = cached_id }
        byName == { i \in 1 .. Len(data_sources) : data_sources[i].name = preferred }
        least(S) == CHOOSE i \in S : \A j \in S : i <= j
    IN  IF byId # { } THEN Some(data_sources[least(byId)])
        ELSE IF preferred # "" /\ byName # { } THEN Some(data_sources[least(byName)])
        ELSE IF preferred = "" /\ data_sources # << >> THEN Some(data_sources[1])
        ELSE Null

\* C22: the sub-source a run selects is the one with the cached
\* data_source_id if the database has it, else the one with the configured
\* preferred name, else the first one; a run aborts for a name no source has
\* only when a preferred name is configured, and its message lists the names
\* available; and a database without sub-sources is queried directly.
C22_SelectionPriority ==
    /\ sync.pc = "prepare"
       => sync.chosen = ByPriority(sync.data_sources, GetMeta(repo, "data_source_id"),
                                   sync.preferred_name)
    /\ ( /\ sync.pc = "returned"
         /\ sync.failed_at = "select_data_source"
         /\ sync.result[1].error # RaisedError )
       => /\ sync.preferred_name # ""
          /\ sync.result[1].error[1].text = "Data Source nicht gefunden"
    /\ (sync.pc = "save_schema" /\ sync.data_sources = << >>)
       => GetMeta(repo, "data_source_id") = Some("")

UpsertRowStep == sync.pc = "upsert_row" /\ sync'.pc = "replace_relations"

\* C23: upsert_row inserts the row when its id is new and otherwise updates
\* the columns of the payload only: a column the payload lacks keeps the value
\* the row had, and no other row changes.
C23_UpsertStep ==
    UpsertRowStep =>
        LET page == sync.pages[sync.idx]
            row_data == RowFromPage(page, sync.property_map)
        IN  /\ DOMAIN repo'.rows = DOMAIN repo.rows \cup { page.id }
            /\ repo'.columns = repo.columns
            /\ \A c \in DOMAIN row_data : repo'.rows[page.id][c] = row_data[c]
            /\ page.id \in DOMAIN repo.rows
               => \A c \in repo.columns \ DOMAIN row_data :
                    repo'.rows[page.id][c] = repo.rows[page.id][c]
            /\ \A id \in DOMAIN repo.rows \ { page.id } : repo'.rows[id] = repo.rows[id]

C23_UpsertRowFrame == [][C23_UpsertStep]_vars

\* C23 witness: the second run has upserted R1 with a payload that lacks the
\* column `name`; R1 still has the name the first run gave it, and the row
\* of R2 is there as well.
C23_Witness ==
    /\ syncs = 2
    /\ sync.pc = "replace_relations"
    /\ sync.idx = 1
    /\ sync.property_map = << RelEntry >>
    /\ "R1" \in DOMAIN repo.rows
    /\ "R2" \in DOMAIN repo.rows
    /\ "name" \in repo.columns
    /\ repo.rows["R1"]["name"] = Text("R1")
    /\ repo.rows["R2"]["name"] = Text("R2")

\* the positions a run can be in after a step taken at position pc: the next
\* step of the sequence, or the end of the run
Successors(pc) ==
    CASE pc = "settings" -> { "repository", "returned" }
      [] pc = "repository" -> { "database_id", "raised" }
      [] pc = "database_id" -> { "retrieve_database", "returned" }
      [] pc = "retrieve_database" -> { "data_source_name", "returned" }
      [] pc = "data_source_name" -> { "select_data_source", "raised" }
      [] pc = "select_data_source" -> { "prepare", "returned" }
      [] pc = "prepare" -> { "save_schema", "returned" }
      [] pc = "save_schema" -> { "ensure_wide_table", "raised" }
      [] pc = "ensure_wide_table" -> { "paginate", "raised" }
      [] pc = "paginate" -> { "upsert_page_raw", "filter", "returned" }
      [] pc = "upsert_page_raw" -> { "upsert_row", "raised" }
      [] pc = "upsert_row" -> { "replace_relations", "raised" }
      [] pc = "replace_relations" -> { "upsert_page_raw", "filter", "raised" }
      [] pc = "filter" -> { "fetch", "materialize", "raised" }
      [] pc = "fetch" -> { "fetch", "materialize", "raised" }
      [] pc = "materialize" -> { "finalize", "raised" }
      [] pc = "finalize" -> { "returned", "raised" }
      [] OTHER -> { "settings" }

MappedColumns(property_map) ==
    { ColumnOf(property_map[i]) : i \in 1 .. Len(property_map) }

\* C24: a run takes its steps in one fixed order (settings, identity, schema
\* container, schema and wide table, record sweep, target resolution,
\* materialization, finalization), each once: the sweep takes the records one
\* after the other and the resolution each target once; every column of the
\* property map is in the wide table when a record is upserted; and from the
\* start of the resolution on no record is upserted.
C24_Step ==
    /\ sync'.pc \in Successors(sync.pc)
    /\ (sync.pc = "replace_relations" /\ sync'.pc = "upsert_page_raw")
       => sync'.idx = sync.idx + 1 /\ sync'.idx <= Len(sync.pages)
    /\ (sync.pc = "replace_relations" /\ sync'.pc = "filter")
       => sync.idx = Len(sync.pages)
    /\ (sync.pc = "fetch" /\ sync'.pc = "fetch")
       => sync'.pending \subseteq sync.pending /\ sync'.pending # sync.pending
    /\ (sync.pc = "fetch" /\ sync'.pc = "materialize")
       => Cardinality(sync.pending) = 1
    /\ UpsertRowStep => MappedColumns(sync.property_map) \subseteq repo.columns
    /\ sync.pc \in { "filter", "fetch", "materialize", "finalize" }
       => /\ DOMAIN repo'.rows = DOMAIN repo.rows
          /\ repo'.raw = repo.raw
          /\ sync'.upserted_count = sync.upserted_count

C24_LinearOrder == [][C24_Step]_vars

\* C24 witness: a run has gone through every step, with two records swept and
\* two targets resolved.
C24_Witness ==
    /\ syncs = 1
    /\ Succeeded
    /\ sync.upserted_count = 2
    /\ sync.missing = { "R2", "X" }
    /\ sync.fetch_failed = { }
    /\ GetMeta(repo, "last_full_sync") # Null

StoredDatabaseId(st) ==
    IF GetMeta(st, "database_id") = Some("") THEN Null ELSE GetMeta(st, "database_id")

\* the step in which _ensure_database_id runs and the run goes on
DatabaseIdStep == sync.pc = "database_id" /\ sync'.pc = "retrieve_database"

\* C25: a stored database_id is never overwritten.  Over any sequence of runs
\* with any configured identifiers, the store's database_id is set only by a
\* run that finds none stored, to the identifier that run was configured
\* with; every other step leaves it as it is; and a run that finds one stored
\* goes on with the stored identifier, whatever it was configured with.
C25_Step ==
    /\ StoredDatabaseId(repo) # Null => StoredDatabaseId(repo') = StoredDatabaseId(repo)
    /\ StoredDatabaseId(repo') # StoredDatabaseId(repo)
       => DatabaseIdStep /\ StoredDatabaseId(repo') = Some(sync.database_id)
    /\ DatabaseIdStep => Some(sync'.database_id) = StoredDatabaseId(repo')

C25_DatabaseIdKept == [][C25_Step]_vars

\* C25 witness: a run configured with the second identifier has gone on with
\* the first, which the store still holds.
C25_Witness ==
    /\ syncs = 2
    /\ sync.pc = "retrieve_database"
    /\ store0.meta["database_id"] = Some("db")
    /\ StoredDatabaseId(repo) = Some("db")
    /\ sync.settings # Null
    /\ sync.settings[1].notion_database_id = OtherDatabaseId
    /\ sync.database_id = "db"

(***************************************************************************)
(* Further properties of the job manager (checked under Spec).             *)
(***************************************************************************)
InRange(st) == 0 <= st.processed /\ st.processed <= st.total

\* C26: the sweep calls the progress callback once after every record it has
\* upserted, with the number upserted so far and the total; the job state and
\* every snapshot returned of it have 0 <= processed <= total; and within one
\* run processed never decreases and grows by one per upserted record.
C26_Step ==
    /\ InRange(state') /\ InRange(returned'.snapshot)
    /\ state'.run = state.run
       => state'.processed \in { state.processed, state.processed + 1 }
    /\ \A w \in 1 .. Len(workers) :
        /\ workers'[w].upserted_count = workers[w].upserted_count + 1
           => /\ workers'[w].pc = "report"
              /\ state.processed = workers[w].upserted_count
              /\ state.total = workers[w].total
        /\ (workers[w].pc = "report" /\ workers'[w].pc # "report")
           => /\ w = state.run
              /\ state'.processed = workers[w].upserted_count
        /\ (workers[w].pc = "report_total" /\ workers'[w].pc # "report_total")
           => /\ state'.total = workers[w].total
              /\ state'.processed = workers[w].upserted_count

C26_ProgressMonotone == [][C26_Step]_vars

\* C26 witness: the second run has reported its second record of two, after
\* a snapshot taken when it had reported one.
C26_Witness ==
    /\ state.run = 2
    /\ state.status = "running"
    /\ state.processed = 2 /\ state.total = 2
    /\ returned.kind = "status"
    /\ returned.snapshot.run = 2
    /\ returned.snapshot.processed = 1 /\ returned.snapshot.total = 2

\* the positions of a worker inside _report_progress's and the terminal
\* transition's `with self._lock:` blocks
LockedPositions == { "report_total", "set_status", "set_error", "set_finished" }

C28_LockOnlyForUpdates ==
    /\ \A w \in 1 .. Len(workers) :
         lock = WorkerThread(w) <=> workers[w].pc \in LockedPositions
    /\ \A c \in Callers :
         lock = CallerThread(c)
            <=> callers[c].pc \in { "start_check", "start_update", "start_return" }

\* C28: the job lock is held only inside the state updates of start_sync, of
\* the progress callback and of the terminal transition, never while the
\* worker is in a stage of run_full_sync; a held lock is always released, so
\* that get_status and start_sync get it while a sync is running, and they
\* return, since a caller is inside start_sync exactly while it holds the
\* lock.
C28_LockShortAndFree ==
    /\ []C28_LockOnlyForUpdates
    /\ (lock # NoHolder) ~> (lock = NoHolder)

\* C28 witness: get_status has returned a snapshot of a running sync whose
\* worker is in the page sweep, the lock free.
C28_Witness ==
    /\ lock = NoHolder
    /\ returned.kind = "status"
    /\ returned.snapshot.status = "running"
    /\ Len(workers) = 1
    /\ workers[1].pc = "sweep_write"
    /\ workers[1].upserted_count = 1
    /\ returned.snapshot.processed = 1

(***************************************************************************)
(* Properties of the resolution pool (checked under SpecResolve).          *)
(***************************************************************************)
TargetsOf(target_ids) == { target_ids[i] : i \in DOMAIN target_ids }

\* C27: while the targets are resolved at most three fetches are in progress
\* at a time and no target's fetch is begun twice; and when materialization
\* starts every target given has been fetched exactly once and every
\* submitted fetch has ended, with or without success.
C27_BoundedPoolFansIn ==
    /\ Cardinality(pool.running) <= 3
    /\ \A id \in 1 .. MaxTargets : pool.begun[id] <= 1
    /\ pool.pc = "materialize"
       => /\ pool.running = { } /\ pool.queue = << >>
          /\ pool.finished = TargetsOf(pool.target_ids)
          /\ pool.failed \subseteq pool.finished
          /\ \A id \in 1 .. MaxTargets :
                pool.begun[id] = IF id \in TargetsOf(pool.target_ids) THEN 1 ELSE 0

\* C27 witness: three fetches are in progress while a fourth target waits in
\* the queue, the `with` block being left.
C27_Witness ==
    /\ pool.pc = "joining"
    /\ Cardinality(pool.running) = 3
    /\ Len(pool.queue) = 1
    /\ pool.threads = MaxWorkers

(***************************************************************************)
(* Properties of the resolution phase of a run (checked under SpecSync).   *)
(***************************************************************************)
\* the page-cache ids a step writes
CacheWritten ==
    { id \in DOMAIN repo'.cache :
        id \notin DOMAIN repo.cache \/ repo'.cache[id] # repo.cache[id] }

\* C29: from the end of the page sweep until materialization starts, the run
\* writes the page cache only: the wide table, the raw records, the relation
\* edges and the meta table stay as they are; and every cache entry written
\* is that of a target still pending, which is pending no more afterwards, so
\* that no entry is written by two fetches of one run.
C29_ResolutionStep ==
    sync.pc \in { "filter", "fetch" }
    => /\ repo'.rows = repo.rows /\ repo'.columns = repo.columns
       /\ repo'.raw = repo.raw
       /\ repo'.edges = repo.edges
       /\ repo'.meta = repo.meta
       /\ DOMAIN repo.cache \subseteq DOMAIN repo'.cache
       /\ Cardinality(CacheWritten) <= 1
       /\ \A id \in CacheWritten :
            /\ sync.pc = "fetch"
            /\ id \in sync.pending
            /\ id \notin sync'.pending
       /\ sync.pc = "fetch" => sync'.pending \subseteq sync.pending

C29_ResolutionWritesCacheOnly == [][C29_ResolutionStep]_vars

\* C29 witness: the resolution of the first run has written the cache entries
\* of both targets and materialization is about to start, the swept rows,
\* raw records and edges in place.
C29_Witness ==
    /\ syncs = 1
    /\ sync.pc = "materialize"
    /\ sync.missing = { "R2", "X" }
    /\ DOMAIN repo.cache = { "R2", "X" }
    /\ DOMAIN repo.rows = { "R1", "R2" }
    /\ repo.raw = { "R1", "R2" }
    /\ repo.edges # { }

(***************************************************************************)
(* Properties of the cache filter (checked under SpecFilter).              *)
(***************************************************************************)
\* an entry whose synced_at is a timestamp less than 7 days before the call
Younger(entry) ==
    entry.synced_at.kind = "iso" /\ LookupDay - entry.synced_at.day < 7

\* an entry whose synced_at is missing, no timestamp, or more than 7 days
\* before the call
MissingOrOld(entry) ==
    \/ entry.synced_at.kind \in { "none", "garbage" }
    \/ entry.synced_at.kind = "iso" /\ LookupDay - entry.synced_at.day > 7

\* C30: filter_missing_or_stale_targets returns exactly the given ids that
\* have no page-cache entry or whose entry's synced_at is missing, unparsable
\* or older than 7 days; so the run fetches every such target and no target
\* whose entry is younger than 7 days.
C30_FilterExact ==
    /\ lookup.pc \in { "filtered", "resolved" }
       => lookup.missing =
            { id \in lookup.ids :
                id \notin DOMAIN lookup.store.cache \/ MissingOrOld(lookup.store.cache[id]) }
    /\ lookup.pc = "resolved"
       => \A id \in lookup.ids :
            /\ (id \notin DOMAIN lookup.store.cache \/ MissingOrOld(lookup.store.cache[id]))
               => id \in lookup.fetched
            /\ (id \in DOMAIN lookup.store.cache /\ Younger(lookup.store.cache[id]))
               => id \notin lookup.fetched
    /\ lookup.fetched \subseteq lookup.ids

\* C30 witness: of three targets asked for, one without entry, one with an
\* unparsable synced_at and one synced today, the first two are fetched.
C30_Witness ==
    /\ lookup.pc = "resolved"
    /\ lookup.ids = PageIds
    /\ DOMAIN lookup.store.cache = { "R2", "X" }
    /\ lookup.store.cache["R2"].synced_at = Garbage
    /\ lookup.store.cache["X"].synced_at = IsoZ(LookupDay)
    /\ lookup.fetched = { "R1", "R2" }

(***************************************************************************)
(* Properties of the relation table (checked under SpecEdges).             *)
(***************************************************************************)

EdgesOf(edges, page_id) == { e \in edges : e.from_page_id = page_id }

\* the table the call in progress leaves when it succeeds
NewTable ==
    ReplaceRelationsForPage([ EmptyStore EXCEPT !.edges = replacer.before ],
                            replacer.page_id, replacer.relations).store.edges

\* C31: replace_relations_for_page is atomic.  While a call is in progress
\* and after a call that failed, the table every other connection reads
\* is the table from before the call; after a call that succeeded it is the
\* table with the record's complete new edge set.  What a concurrent
\* get_relations_for_pages read for a record is its complete old or its
\* complete new edge set.
C31_ReplaceIsAtomic ==
    /\ replacer.pc \in { "delete", "insert", "commit", "failed" }
       => replacer.table = replacer.before
    /\ replacer.pc = "done" => replacer.table = NewTable
    /\ replacer.seen # Null
       => replacer.seen[1].rows
            \in { EdgesOf(replacer.before, replacer.seen[1].page_id),
                  EdgesOf(NewTable, replacer.seen[1].page_id) }

\* a reader read the record's old edges while the writer's transaction held
\* neither the old nor the new edge set
C31_Witness ==
    /\ replacer.pc = "insert"
    /\ replacer.seen # Null
    /\ replacer.seen[1].page_id = replacer.page_id
    /\ replacer.seen[1].rows # { }
    /\ EdgesOf(replacer.working[1], replacer.page_id)
         \notin { EdgesOf(replacer.before, replacer.page_id),
                  EdgesOf(NewTable, replacer.page_id) }

\* the targets of the stored edges of one record and property, read
\* ORDER BY position
StoredTargets(page_id, prop_name) ==
    LET entries == GetRelationsForPage([ edges |-> replacer.table ], page_id, prop_name)
    IN  [ k \in 1 .. Len(entries) |-> entries[k].to_page_id ]

StoredPositions(page_id, prop_name) ==
    LET entries == GetRelationsForPage([ edges |-> replacer.table ], page_id, prop_name)
    IN  [ k \in 1 .. Len(entries) |-> entries[k].position ]

\* C32: once the edges of a swept record are stored, every relation
\* property of the record has one edge per entry of its remote list: read
\* in the order of their positions the edges name the targets of the list in
\* the remote order, and the k-th of them carries the position k - 1; also
\* for a list that names a target twice or holds an entry without id.
C32_EdgesMirrorRemoteList ==
    replacer.pc = "done"
    => \A i \in 1 .. Len(replacer.page[1].properties) :
          LET prop == replacer.page[1].properties[i]
          IN  /\ StoredTargets(replacer.page_id, prop.name) = prop.content
              /\ StoredPositions(replacer.page_id, prop.name)
                   = [ k \in 1 .. Len(prop.content) |-> k - 1 ]

(***************************************************************************)
(* Properties of the job state across runs (checked under Spec).           *)
(***************************************************************************)

\* the step of start_sync that spawns run number state'.run
SpawnStep == state'.run # state.run

\* a snapshot of a later run in progress carries the result of the run
\* before it
CarriesPreviousResult(st) ==
    (st.status = "running" /\ st.run >= 2)
    => /\ st.result # Null
       /\ st.result[1].run = st.run - 1

C33_Step ==
    SpawnStep
    => /\ state'.result = state.result
       /\ state'.status = "running"
       /\ state'.processed = 0 /\ state'.total = 0
       /\ state'.mode \in { "full", "refresh" }
       /\ state'.error = Null
       /\ state'.started_at = Some(clock)
       /\ state'.finished_at = Null

\* C33: the start_sync that spawns a job resets status, processed, total,
\* mode, error, started_at and finished_at and leaves `result` as it was;
\* every snapshot returned while the second or a later run is running carries
\* the result of the run before it, and so does the job state until the worker
\* of the new run stores its own result.
C33_StartKeepsResult ==
    /\ [][C33_Step]_vars
    /\ [](/\ CarriesPreviousResult(returned.snapshot)
          /\ (state.run >= 1 /\ workers[state.run].pc \notin
                                  { "set_status", "set_error", "set_finished" })
             => CarriesPreviousResult(state))

\* C33 witness: get_status returned a snapshot of the running second run
\* that holds the result of the first
C33_Witness ==
    /\ returned.kind = "status"
    /\ returned.snapshot.status = "running"
    /\ returned.snapshot.run = 2
    /\ returned.snapshot.processed = 1
    /\ returned.snapshot.result # Null
    /\ returned.snapshot.result[1].run = 1
    /\ returned.snapshot.result[1].ok

(***************************************************************************)
(* Properties of the built columns (checked under SpecBuild).              *)
(***************************************************************************)

\* the property map as run_full_sync passes it on
BuiltPropertyMap ==
    [ i \in 1 .. Len(builder.property_map) |->
        [ name |-> Joined(builder.property_map[i].name),
          column |-> Joined(builder.property_map[i].column),
          type |-> builder.property_map[i].type ] ]

\* a record with a value for every property of the schema
BuiltPage ==
    [ id |-> "R1",
      properties |-> [ i \in 1 .. Len(BuiltPropertyMap) |->
                         [ name |-> BuiltPropertyMap[i].name,
                           type |-> BuiltPropertyMap[i].type,
                           content |-> << "value of the property" >> ] ] ]

\* C34: no property of a built property map has a base column (id,
\* last_edited_time, created_time, archived, url) as its column, and in the
\* row _row_from_page makes of a record with that map the base columns hold
\* the record's own metadata, not a property value.
C34_BaseColumnsReserved ==
    /\ \A i \in 1 .. Len(BuiltPropertyMap) : BuiltPropertyMap[i].column \notin BaseColumns
    /\ \A c \in BaseColumns :
          RowFromPage(BuiltPage, BuiltPropertyMap)[c]
            = RowFromPage(BuiltPage, << >>)[c]

(***************************************************************************)
(* Properties of the swept tables (checked under SpecSweep).               *)
(***************************************************************************)

\* C35: in every state of the local store, during and after the sweeps of
\* any sequence of runs, every id of the wide table has a raw snapshot and
\* every from_page_id of the relation table is the id of a row of the wide
\* table.
C35_TablesAgree ==
    /\ DOMAIN repo.rows \subseteq repo.raw
    /\ \A e \in repo.edges : e.from_page_id \in DOMAIN repo.rows

(***************************************************************************)
(* Properties of records the remote source no longer returns (checked      *)
(* under SpecSync).                                                        *)
(***************************************************************************)

\* the record whose edges the step replaces, if it is that step
ReplacedRecord ==
    IF sync.pc = "replace_relations" THEN { sync.pages[sync.idx].id } ELSE { }

\* the labels update_relation_columns writes for the edges of a record
MaterializedLabels(id, prop_name) ==
    LET entries == SortedByPosition(StoredEdges(id, prop_name))
    IN  JsonStrings([ i \in 1 .. Len(entries) |-> entries[i].value ])

C36_Step ==
    /\ DOMAIN repo.rows \subseteq DOMAIN repo'.rows
    /\ repo.raw \subseteq repo'.raw
    /\ \A id \in DOMAIN repo.rows \ ReplacedRecord :
          EdgesOf(repo'.edges, id) = EdgesOf(repo.edges, id)
    /\ MaterializeStep
       => \A id \in DOMAIN repo.rows :
            \A p \in RelationProperties(sync.property_map) :
                StoredEdges(id, p) # { }
                => repo'.rows[id][RelationColumn(sync.property_map, p)]
                     = MaterializedLabels(id, p)

\* C36: no step of a sync removes a row of the wide table or a raw
\* snapshot, and the edges of a record change only when the sweep replaces
\* them for a page with its id.  A record the source no longer returns
\* therefore keeps its row, its raw snapshot and the edges of the last sync
\* that saw it, and update_relation_columns still writes its relation column.
C36_RowsAreNeverDeleted == [][C36_Step]_vars

\* C36 witness: the second sync got no record from the source and succeeded;
\* R1 of the first sync still has its row, its raw snapshot, its edges and
\* the labels written by the second materialization
C36_Witness ==
    /\ syncs = 2
    /\ Succeeded
    /\ sync.pages = << >>
    /\ sync.result[1].fetched_count = 0
    /\ "R1" \in DOMAIN repo.rows
    /\ "R1" \in repo.raw
    /\ Cardinality(EdgesOf(repo.edges, "R1")) = 2
    /\ repo.rows["R1"]["rel"] = MaterializedLabels("R1", "Rel")

(***************************************************************************)
(* Properties of the end of a run (checked under SpecSync).                *)
(***************************************************************************)

FinalizeKeys == { "last_full_sync", "last_incremental_sync", "notion_api_version" }

C37_Step ==
    /\ (\E key \in FinalizeKeys : GetMeta(repo', key) # GetMeta(repo, key))
       => /\ sync'.pc = "returned"
          /\ sync'.result[1].ok
    /\ (sync.pc # "returned" /\ sync'.pc = "returned" /\ sync'.result[1].ok)
       => /\ GetMeta(repo', "last_full_sync") = Some(today)
          /\ GetMeta(repo', "last_incremental_sync") = Some(today)
          /\ GetMeta(repo', "notion_api_version") = Some(NotionVersion)
    /\ (sync.pc = "returned" /\ sync'.pc = "returned") => repo' = repo

\* C37: the meta keys last_full_sync, last_incremental_sync and
\* notion_api_version change only in the step in which a run returns
\* ok = true, which writes all three and after which the run writes nothing;
\* a run that returns ok = false or raises leaves them as they were.
C37_FinalizeOnlyOnSuccess == [][C37_Step]_vars

(***************************************************************************)
(* The frame of replace_relations_for_page (checked under SpecEdges).      *)
(***************************************************************************)

\* the edges of the records other than page_id
EdgesOfOthers(edges, page_id) == { e \in edges : e.from_page_id # page_id }

C38_Step ==
    /\ EdgesOfOthers(replacer'.table, replacer'.page_id)
         = EdgesOfOthers(replacer.table, replacer'.page_id)
    /\ replacer'.working # Null
       => EdgesOfOthers(replacer'.working[1], replacer'.page_id)
            = EdgesOfOthers(replacer.table, replacer'.page_id)

\* C38: replace_relations_for_page(id, edges) changes only edges whose
\* from_page_id is id.  In every step of the call, the edges of every other
\* record, those that point to id among them, are in the table and in the
\* call's transaction exactly as they were.
C38_ReplaceFrame == [][C38_Step]_vars

\* C38 witness: the edges of R2 have been replaced while R1 has an edge that
\* points to R2
C38_Witness ==
    /\ replacer.pc = "done"
    /\ replacer.page_id = "R2"
    /\ replacer.table # replacer.before
    /\ EdgesOf(replacer.before, "R2") # { }
    /\ \E e \in replacer.table : e.from_page_id = "R1" /\ e.to_page_id = "R2"

(***************************************************************************)
(* Properties of a successful run's counts (checked under Spec).           *)
(***************************************************************************)

\* the result run_full_sync returned to worker w, if it has returned one
ReturnedResult(w) == workers[w].result

\* C39: a result with ok = true has fetched_count = upserted_count = the
\* number of records pagination returned, and a job state whose run ended
\* with such a result has status completed and processed = total = that
\* number.
C39_SuccessCounts ==
    /\ \A w \in 1 .. Len(workers) :
          (ReturnedResult(w) # Null /\ ReturnedResult(w)[1].ok)
          => /\ ReturnedResult(w)[1].fetched_count = workers[w].total
             /\ ReturnedResult(w)[1].upserted_count = workers[w].total
             /\ state.run = w
             /\ state.processed = workers[w].total
             /\ state.total = workers[w].total
    /\ (state.status \in { "completed", "error" } /\ state.result[1].ok)
       => /\ state.status = "completed"
          /\ state.result[1].run = state.run
          /\ state.processed = state.result[1].fetched_count
          /\ state.total = state.result[1].fetched_count
          /\ state.result[1].upserted_count = state.result[1].fetched_count
    /\ state.status = "completed" => state.result[1].ok

\* C39 witness: a run of two records has ended with ok = true
C39_Witness ==
    /\ state.status = "completed"
    /\ state.finished_at # Null
    /\ state.result[1].ok
    /\ state.result[1].fetched_count = MaxPages
    /\ state.result[1].upserted_count = MaxPages
    /\ state.processed = MaxPages /\ state.total = MaxPages

(***************************************************************************)
(* Properties of the force_full flag (checked under Spec).                 *)
(***************************************************************************)

\* the worker, had start_sync been called with the other value of the flag
OtherFlag(wk) == [ wk EXCEPT !.force_full = ~ @ ]

\* two workers at the same point of the same run, whatever their flags
SameRun(a, b) == [ a EXCEPT !.force_full = FALSE ] = [ b EXCEPT !.force_full = FALSE ]

\* the stage a worker inside run_full_sync is in
RunStage(wk) ==
    IF wk.pc \in PreSweepStages \cup { "sweep_write", "resolve", "materialize", "finalize" }
    THEN { wk.pc } ELSE { }

\* C40: force_full decides JobState.mode and nothing else.  The mode of the
\* job state is "full" for a run started with force_full = true and "refresh"
\* for one started with false; every step run_full_sync can take (any stage,
\* any outcome of its requests and writes, any number of records) leads a
\* worker started with the other flag to the same position, counts and
\* result; and the mode of every result is "full".
C40_FlagOnlySetsMode ==
    /\ \A w \in 1 .. Len(workers) :
          /\ Alive(w)
             => /\ state.run = w
                /\ state.mode = IF workers[w].force_full THEN "full" ELSE "refresh"
          /\ \A stage \in RunStage(workers[w]) :
                \A outcome \in StageOutcomes(stage), n \in 0 .. MaxPages :
                    SameRun(RunStep(OtherFlag(workers[w]), outcome, n, w),
                            RunStep(workers[w], outcome, n, w))
          /\ workers[w].result # Null => workers[w].result[1].mode = "full"
    /\ state.result # Null => state.result[1].mode = "full"
    /\ returned.snapshot.result # Null => returned.snapshot.result[1].mode = "full"

\* C40 witness: the second run was started with force_full = false after a
\* first run had completed; its job state has the mode "refresh", and its
\* result, like the first run's, the mode "full"
C40_Witness ==
    /\ Len(workers) = 2
    /\ workers[2].pc = "returned"
    /\ ~ workers[2].force_full
    /\ state.mode = "refresh"
    /\ workers[2].result[1].ok
    /\ workers[2].result[1].mode = "full"
    /\ state.result # Null
    /\ state.result[1].run = 1
    /\ state.result[1].mode = "full"

====
